---------------------------- MODULE Spec2Model ----------------------------
(***************************************************************************)
(* A model of DaliVM, a static emulator of Dalvik bytecode.                *)
(*                                                                         *)
(* Part I  models the static-field store (dalvik_vm/memory.py), the lazy   *)
(*         class loader (dalvik_vm/class_loader.py) with its nested        *)
(*         interpreters, and the driver loop (emulate.py main).  Methods   *)
(*         are sequences of decoded instructions; pc counts instructions.  *)
(* Part II models one interpreter over raw bytecode bytes: the dispatch    *)
(*         table (dalvik_vm/opcodes/__init__.py) and the control-flow      *)
(*         handlers (dalvik_vm/opcodes/control.py); pc counts bytes.       *)
(* Part III models the static analysis of a caller: the call-site scan    *)
(*         (emulate.py find_all_call_sites), the backward slicer          *)
(*         (dalvik_vm/forward_lookup.py) and the slice executor           *)
(*         (dalvik_vm/dependency_analyzer.py) over instruction texts.     *)
(***************************************************************************)
EXTENDS Integers, Sequences, FiniteSets, TLC

VARIABLES
    program,      \* the analysed archive: per class its <clinit>, method m, seeds
    storeObjs,    \* every StaticFieldStore object allocated so far
    globalStore,  \* memory._static_field_store: index into storeObjs, 0 = None
    stack,        \* nested interpreters, innermost last
    ev,           \* history: what the last step completed
    clinitRuns,   \* history: per class, <clinit> runs started since the last reset
    calls,        \* number of top-level calls made by the environment
    phase,        \* position of the driver (emulate.py main)
    results,      \* the driver's results list
    call_sites,   \* the driver's call sites: per site its captured arguments
    bytecode,     \* Part II: vm.bytecode
    pc,           \* Part II: vm.pc
    registers,    \* Part II: vm.registers
    finished,     \* Part II: vm.finished
    last_result,  \* Part II: vm.last_result
    last,         \* Part II history: the instruction dispatched by the last step
    caller,          \* Part III: the caller's instructions (text and length)
    requested,       \* Part III: the requested target class and method name
    stage,           \* Part III: position of the analysis
    trace_map,       \* Part III: build_trace_map(caller_em): pc -> text
    site_candidates, \* Part III: the pcs find_all_call_sites records, in order
    call_pc,         \* Part III: the pc resolve_args_by_execution is called on
    arg_regs,        \* Part III: the argument registers of the invoke at call_pc
    dependency_pcs,  \* Part III: the slice
    slice_vm,        \* Part III: the slice executor's VM and what it executed
    heap,            \* Part IV: the DalvikArray and DalvikObject instances, by address
    hook,            \* Part IV: vm.hook, the user hook
    class_loader,    \* Part IV: vm.class_loader
    mock_config,     \* Part V: mocks.config.mock_config, the process-wide record
    field_log        \* Part V history: per static field, the value last stored

\* The variables of Part III; Parts I and II leave them alone.
slicerVars == <<caller, requested, stage, trace_map, site_candidates, call_pc, arg_regs,
                dependency_pcs, slice_vm>>
\* The variables of Part V alone.
mockVars == <<mock_config, field_log>>
\* The variables of Part IV and Part V; Parts I, II and III leave them alone.
objVars == <<heap, hook, class_loader, mockVars>>
loaderVars == <<program, storeObjs, globalStore, stack, ev, clinitRuns, calls,
                phase, results, call_sites, slicerVars, objVars>>
vmVars == <<bytecode, pc, registers, finished, last_result, last, slicerVars, objVars>>
vars == <<program, storeObjs, globalStore, stack, ev, clinitRuns, calls,
          phase, results, call_sites, bytecode, pc, registers, finished, last_result,
          last, slicerVars, objVars>>

\* Part III does not run while Part I or Part II does.
SlicerIdle ==
    /\ caller = << >>
    /\ requested = [class |-> << >>, name |-> << >>]
    /\ stage = [ph |-> "idle", k |-> 0]
    /\ trace_map = << >>
    /\ site_candidates = << >>
    /\ call_pc = 0
    /\ arg_regs = << >>
    /\ dependency_pcs = {}
    /\ slice_vm = [pc |-> 0, finished |-> FALSE, executed |-> << >>,
                   was |-> [pc |-> 0, finished |-> FALSE]]

\* No array or object allocated, no user hook, no class loader.
\* mock_config = AndroidMockConfig(): the class defaults.
AndroidMockConfig == [sdk_int |-> 30]
MockIdle ==
    /\ mock_config = AndroidMockConfig
    /\ field_log = << >>
ObjIdle ==
    /\ heap = << >>
    /\ hook = "none"
    /\ class_loader = "none"
    /\ MockIdle

---------------------------------------------------------------------------
(* Bounds of the model.                                                    *)

\* Nested interpreters after which Python raises RecursionError (the real
\* limit is about a thousand Python frames).
MaxDepth == 4
\* max_steps of _run_clinit (500 in the source), scaled down.
ClinitMaxSteps == 3
\* max_steps of execute_method (5000 in the source), scaled down.
MethodMaxSteps == 4
\* max_steps of emulate_with_args (10000 in the source), scaled down.
TargetMaxSteps == 5
\* Top-level calls the environment makes on the class loader.
MaxCalls == 2
\* Call sites the driver processes.
NumSites == 2

---------------------------------------------------------------------------
(* Values: what a RegisterValue wraps (types.py).                          *)

Null == [t |-> "null", i |-> 0, c |-> ""]
IntV(n) == [t |-> "int", i |-> n, c |-> ""]
ObjV(c) == [t |-> "obj", i |-> 0, c |-> c]

\* vm.last_result: Python None (box = FALSE) or a RegisterValue.
NoResult == [box |-> FALSE, val |-> Null]
Boxed(v) == [box |-> TRUE, val |-> v]

\* The classes of the archive, and one framework class that is not in it.
Classes == {"LA;", "LB;"}
ExternalSdkClasses == {"Ljava/lang/Object;"}
AllClasses == Classes \cup ExternalSdkClasses
Other(c) == IF c = "LA;" THEN "LB;" ELSE "LA;"
NumRegs == 2

---------------------------------------------------------------------------
(* The static-field store (memory.py).  wtag and itag are history fields:  *)
(* the driver phase in which an entry was written / a class was marked.    *)

EmptyStore == [fields |-> <<>>, initialized |-> {}, wtag |-> <<>>, itag |-> <<>>]

StoreGet(s, c, f, default) ==
    IF <<c, f>> \in DOMAIN s.fields THEN s.fields[<<c, f>>] ELSE default

StoreSet(s, c, f, v, tag) ==
    [s EXCEPT !.fields = (<<c, f>> :> v) @@ s.fields,
              !.wtag = (<<c, f>> :> tag) @@ s.wtag]

IsClassInitialized(s, c) == c \in s.initialized

\* Variant: a mark_class_initialized that records nothing.
MarkNothing(s, c, tag) == s

MarkClassInitialized(s, c, tag) ==
    [s EXCEPT !.initialized = s.initialized \cup {c},
              !.itag = IF c \in DOMAIN s.itag THEN s.itag ELSE (c :> tag) @@ s.itag]

\* get_static_field_store(): the heap and the global after the call.
GetStaticFieldStore(objs, g) ==
    IF g = 0 THEN [objs |-> Append(objs, EmptyStore), g |-> Len(objs) + 1]
             ELSE [objs |-> objs, g |-> g]

\* Variant: a reset that leaves the current store object in place.
ResetKeepsStore(objs, g) == GetStaticFieldStore(objs, g)

\* Variant: a reset that forgets the fields but not the initialized classes.
ResetKeepsInitialized(objs, g) ==
    [objs |-> Append(objs, IF g = 0 THEN EmptyStore
                           ELSE [EmptyStore EXCEPT !.initialized = objs[g].initialized,
                                                   !.itag = objs[g].itag]),
     g |-> Len(objs) + 1]

\* reset_static_field_store(): a fresh object replaces the global.
ResetStaticFieldStore(objs, g) ==
    [objs |-> Append(objs, EmptyStore), g |-> Len(objs) + 1]

---------------------------------------------------------------------------
(* Programs.  An instruction is the decoded form of one trace-map entry:   *)
(* op is the mnemonic, a the register operand, cls/name the class and the  *)
(* member named by the trace text, v a literal, a branch target or, for an *)
(* invoke, the list of its argument registers.                             *)

Ins(op, a, cls, name, v) == [op |-> op, a |-> a, cls |-> cls, name |-> name, v |-> v]

\* Bodies a <clinit> of class c may have.  "none": the class declares no
\* <clinit>; "nocode": the method has no code item.
ClinitIds == {"none", "nocode", "put", "loop", "unimpl", "self", "other"}
\* Bodies method m of class c may have.  The driver's archives also hold
\* "rec" (the method invokes itself) and "mutual" (the methods m of the two
\* classes invoke each other).
MethodIds == {"none", "nocode", "ret", "call", "void", "peek", "capinv", "caploop", "alloc",
              "pass", "pass1"}

Code(id, c) ==
    CASE id = "put"     -> << Ins("const", 0, "", "", 1),
                              Ins("sput", 0, c, "f", 0),
                              Ins("return-void", 0, "", "", 0) >>
      [] id = "loop"    -> << Ins("const", 0, "", "", 2),
                              Ins("sput", 0, c, "f", 0),
                              Ins("goto", 0, "", "", 1) >>
      [] id = "unimpl"  -> << Ins("const", 0, "", "", 3),
                              Ins("sput", 0, c, "f", 0),
                              Ins("unused-3e", 0, "", "", 0),
                              Ins("return-void", 0, "", "", 0) >>
      [] id = "self"    -> << Ins("invoke-static", 0, c, "h", << >>),
                              Ins("move-result", 0, "", "", 0),
                              Ins("sput", 0, c, "g", 0),
                              Ins("return-void", 0, "", "", 0) >>
      [] id = "other"   -> << Ins("invoke-static", 0, Other(c), "m", << >>),
                              Ins("return-void", 0, "", "", 0) >>
      [] id = "ret"     -> << Ins("const", 0, "", "", 5),
                              Ins("return", 0, "", "", 0) >>
      [] id = "call"    -> << Ins("invoke-static", 0, c, "h", << >>),
                              Ins("move-result", 1, "", "", 0),
                              Ins("return", 1, "", "", 0) >>
      [] id = "void"    -> << Ins("const", 1, "", "", 4),
                              Ins("sput", 1, c, "g", 0),
                              Ins("return-void", 0, "", "", 0) >>
      [] id = "peek"    -> << Ins("sget", 0, Other(c), "f", 0),
                              Ins("return", 0, "", "", 0) >>
      [] id = "capinv"  -> << Ins("invoke-static", 0, c, "h", << >>),
                              Ins("goto", 0, "", "", 1) >>
      [] id = "caploop" -> << Ins("goto", 0, "", "", 0) >>
      [] id = "alloc"   -> << Ins("new-instance", 0, Other(c), "", 0),
                              Ins("invoke-direct", 0, Other(c), "<init>", 0),
                              Ins("return", 0, "", "", 0) >>
      [] id = "h"       -> << Ins("const", 0, "", "", 7),
                              Ins("return", 0, "", "", 0) >>
      [] id = "rec"     -> << Ins("invoke-static", 0, c, "t", << >>),
                              Ins("return", 0, "", "", 0) >>
      [] id = "mutual"  -> << Ins("invoke-static", 0, Other(c), "m", << >>),
                              Ins("return-void", 0, "", "", 0) >>
      [] id = "pass"    -> << Ins("const", 1, "", "", 8),
                              Ins("invoke-static", 0, c, "k", <<1, 0>>),
                              Ins("return-void", 0, "", "", 0) >>
      [] id = "pass1"   -> << Ins("const", 0, "", "", 6),
                              Ins("invoke-static", 0, c, "k", <<0>>),
                              Ins("return-void", 0, "", "", 0) >>
      [] id = "k"       -> << Ins("return", 1, "", "", 0) >>
      [] id = "arg"     -> << Ins("return", 1, "", "", 0) >>
      [] OTHER          -> << >>

\* The mnemonics that have an entry in HANDLERS.
Handled == {"const", "sput", "sget", "new-instance", "invoke-static",
            "invoke-direct", "move-result", "return", "return-void", "goto"}

\* The body id of method name of class c, "none" when dx has no such method.
\* Every class has helpers h and k with bytecode; the target t lives in LA;.
MethodId(prog, c, name) ==
    IF c \notin Classes THEN "none"
    ELSE CASE name = "<clinit>" -> prog.clinit[c]
           [] name = "m"        -> prog.m[c]
           [] name = "h"        -> "h"
           [] name = "k"        -> "k"
           [] name = "t"        -> IF c = "LA;" THEN prog.t ELSE "none"
           [] OTHER             -> "none"

\* find_method / find_method_by_trace: whether dx holds the method.
FindMethod(prog, c, name) == MethodId(prog, c, name) # "none"

\* get_method_bytecode: None when the method has no code item.
GetMethodBytecode(prog, c, name) ==
    IF MethodId(prog, c, name) \in {"none", "nocode"} THEN << >>
    ELSE Code(MethodId(prog, c, name), c)

HasBytecode(prog, c, name) == MethodId(prog, c, name) \notin {"none", "nocode"}

---------------------------------------------------------------------------
(* Interpreter frames.  A frame is one DalvikVM together with the loop     *)
(* that drives it: kind "clinit" is the loop of _run_clinit, "method" the  *)
(* loop of execute_method, "target" the loop of emulate_with_args, "slice" *)
(* the loop of resolve_args_by_execution.  A "method" frame that lies      *)
(* under a "clinit" frame is an execute_method call waiting for the        *)
(* _run_clinit it made.                                                    *)

NullRegs == [r \in 1..NumRegs |-> Null]

\* args is a history field: the arguments the interpreter was started with.
NewFrame(kind, c, name, handle) ==
    [kind |-> kind, cls |-> c, name |-> name, pc |-> 0, step |-> 0,
     regs |-> NullRegs, last |-> NoResult, finished |-> FALSE, store |-> handle,
     args |-> << >>]

WithArgs(f, regs, args) == [f EXCEPT !.regs = regs, !.args = args]

\* Variant: arguments loaded from register 0 upwards.
ArgStartZero(regs_size, arg_count) == 0

\* start_reg = regs_size - arg_count
ArgStart(regs_size, arg_count) == regs_size - arg_count

RECURSIVE StoreArgs(_, _, _)
\* execute_method: for i, arg in enumerate(args): registers[start_reg + i] = arg
StoreArgs(regs, reg, args) ==
    IF args = << >> THEN regs
    ELSE StoreArgs([regs EXCEPT ![reg + 1] = Head(args)], reg + 1, Tail(args))

\* The registers of a method of regs_size registers called with args.
LoadArguments(regs_size, args) ==
    StoreArgs([r \in 1..regs_size |-> Null], ArgStart(regs_size, Len(args)), args)

RECURSIVE StoreTargetArgs(_, _, _)
\* emulate_with_args: the same loop, a None value is skipped.
StoreTargetArgs(regs, reg, args) ==
    IF args = << >> THEN regs
    ELSE StoreTargetArgs(IF Head(args) = Null THEN regs
                         ELSE [regs EXCEPT ![reg + 1] = Head(args)],
                         reg + 1, Tail(args))

LoadTargetArguments(regs_size, args_list) ==
    StoreTargetArgs([r \in 1..regs_size |-> Null], ArgStart(regs_size, Len(args_list)),
                    args_list)

\* History record of a step: rc names the class whose _run_clinit returned
\* during the step ("" when none did).
Event(kind, c, v, flag) ==
    [kind |-> kind, cls |-> c, val |-> v, flag |-> flag, rc |-> ""]
WithRC(e, c) == [e EXCEPT !.rc = c]

\* The instructions a frame runs: a method's bytecode, or for a slice frame
\* the dependency instructions of call site f.store in ascending pc order.
SliceCode(prog, site) == Code(prog.slice[site], "LB;")

FrameCode(f) ==
    IF f.kind = "slice" THEN SliceCode(program, f.store)
    ELSE GetMethodBytecode(program, f.cls, f.name)

MaxSteps(kind) ==
    CASE kind = "clinit" -> ClinitMaxSteps
      [] kind = "method" -> MethodMaxSteps
      [] OTHER           -> TargetMaxSteps

\* The loop condition at the head of each loop.
CanFetch(f) ==
    CASE f.kind = "clinit" -> f.pc < Len(FrameCode(f)) /\ f.step < ClinitMaxSteps
      [] f.kind = "method" -> f.pc < Len(FrameCode(f)) /\ f.step < MethodMaxSteps
                              /\ ~f.finished
      [] f.kind = "target" -> f.step < TargetMaxSteps /\ f.pc < Len(FrameCode(f))
                              /\ ~f.finished
      [] OTHER             -> f.pc < Len(FrameCode(f))

Top == stack[Len(stack)]
CurIns(f) == FrameCode(f)[f.pc + 1]

\* The loop of f hands the instruction at pc to the handler of op.
\* _run_clinit breaks on return-void before any handler runs.
Dispatches(f, op) ==
    /\ CanFetch(f)
    /\ CurIns(f).op = op
    /\ ~(f.kind = "clinit" /\ op = "return-void")

\* Variant: a loop that does not count its steps.
SteppedUncounted(f, newpc) ==
    [f EXCEPT !.pc = IF f.kind = "slice" THEN f.pc + 1 ELSE newpc]

\* The frame after a handler moved pc to newpc: the slice loop sets pc to the
\* next dependency whatever the handler did.
Stepped(f, newpc) ==
    [f EXCEPT !.pc = IF f.kind = "slice" THEN f.pc + 1 ELSE newpc,
              !.step = f.step + 1]

SetTop(f) == [stack EXCEPT ![Len(stack)] = f]

CurStore == storeObjs[globalStore]

---------------------------------------------------------------------------
(* Opcode handlers, acting on the innermost interpreter.                   *)

loaderRest == <<program, calls, phase, results, call_sites>>

\* const vA, #v
ExecConst ==
    /\ stack # << >>
    /\ Dispatches(Top, "const")
    /\ LET f == Top
           ins == CurIns(f)
       IN  stack' = SetTop(Stepped([f EXCEPT !.regs[ins.a + 1] = IntV(ins.v)], f.pc + 1))
    /\ ev' = Event("op", "", Null, "const")
    /\ UNCHANGED <<storeObjs, globalStore, clinitRuns, loaderRest, vmVars>>

\* sput vA, cls->name: store.set_by_idx, no class initialization.
ExecSput ==
    /\ stack # << >>
    /\ Dispatches(Top, "sput")
    /\ LET f == Top
           ins == CurIns(f)
           got == GetStaticFieldStore(storeObjs, globalStore)
       IN  /\ storeObjs' = [got.objs EXCEPT ![got.g] =
                              StoreSet(@, ins.cls, ins.name, f.regs[ins.a + 1], phase)]
           /\ globalStore' = got.g
           /\ stack' = SetTop(Stepped(f, f.pc + 1))
           /\ ev' = Event("sput", ins.cls, f.regs[ins.a + 1], "")
    /\ UNCHANGED <<clinitRuns, loaderRest, vmVars>>

\* sget vA, cls->name: store.get_by_idx with default 0, no class
\* initialization.  (No class of the archive is in ANDROID_STATIC_FIELDS.)
ExecSget ==
    /\ stack # << >>
    /\ Dispatches(Top, "sget")
    /\ LET f == Top
           ins == CurIns(f)
           got == GetStaticFieldStore(storeObjs, globalStore)
           val == StoreGet(got.objs[got.g], ins.cls, ins.name, IntV(0))
       IN  /\ storeObjs' = got.objs
           /\ globalStore' = got.g
           /\ stack' = SetTop(Stepped([f EXCEPT !.regs[ins.a + 1] = val], f.pc + 1))
           /\ ev' = Event("sget", ins.cls, val, "")
    /\ UNCHANGED <<clinitRuns, loaderRest, vmVars>>

\* new-instance vA, cls
ExecNewInstance ==
    /\ stack # << >>
    /\ Dispatches(Top, "new-instance")
    /\ LET f == Top
           ins == CurIns(f)
       IN  /\ stack' = SetTop(Stepped([f EXCEPT !.regs[ins.a + 1] = ObjV(ins.cls)], f.pc + 1))
           /\ ev' = Event("new-instance", ins.cls, ObjV(ins.cls), "")
    /\ UNCHANGED <<storeObjs, globalStore, clinitRuns, loaderRest, vmVars>>

\* invoke-direct: only the String and StringBuilder constructors are
\* emulated; the class loader is never consulted.
ExecInvokeDirect ==
    /\ stack # << >>
    /\ Dispatches(Top, "invoke-direct")
    /\ LET f == Top
           ins == CurIns(f)
       IN  /\ stack' = SetTop(Stepped(f, f.pc + 1))
           /\ ev' = Event("invoke", ins.cls, Null, "direct")
    /\ UNCHANGED <<storeObjs, globalStore, clinitRuns, loaderRest, vmVars>>

\* move-result vA
ExecMoveResult ==
    /\ stack # << >>
    /\ Dispatches(Top, "move-result")
    /\ LET f == Top
           ins == CurIns(f)
           val == IF f.last.box THEN f.last.val ELSE Null
       IN  stack' = SetTop(Stepped([f EXCEPT !.regs[ins.a + 1] = val], f.pc + 1))
    /\ ev' = Event("op", "", Null, "move-result")
    /\ UNCHANGED <<storeObjs, globalStore, clinitRuns, loaderRest, vmVars>>

\* return vA
ExecReturn ==
    /\ stack # << >>
    /\ Dispatches(Top, "return")
    /\ LET f == Top
           ins == CurIns(f)
       IN  stack' = SetTop(Stepped([f EXCEPT !.last = Boxed(f.regs[ins.a + 1]),
                                             !.finished = TRUE], f.pc + 1))
    /\ ev' = Event("op", "", Null, "return")
    /\ UNCHANGED <<storeObjs, globalStore, clinitRuns, loaderRest, vmVars>>

\* return-void (the handler does not move pc)
ExecReturnVoid ==
    /\ stack # << >>
    /\ Dispatches(Top, "return-void")
    /\ LET f == Top
       IN  stack' = SetTop(Stepped([f EXCEPT !.last = Boxed(Null),
                                             !.finished = TRUE], f.pc))
    /\ ev' = Event("op", "", Null, "return-void")
    /\ UNCHANGED <<storeObjs, globalStore, clinitRuns, loaderRest, vmVars>>

\* goto +v (v is the index of the target instruction)
ExecGoto ==
    /\ stack # << >>
    /\ Dispatches(Top, "goto")
    /\ LET f == Top
           ins == CurIns(f)
       IN  stack' = SetTop(Stepped(f, ins.v))
    /\ ev' = Event("op", "", Null, "goto")
    /\ UNCHANGED <<storeObjs, globalStore, clinitRuns, loaderRest, vmVars>>

\* dispatch() on an opcode without handler: a warning, and the loop goes on.
\* Only emulate_with_args and the slice executor run dispatch().
ExecUnimplemented ==
    /\ stack # << >>
    /\ Top.kind \in {"target", "slice"}
    /\ CanFetch(Top)
    /\ CurIns(Top).op \notin Handled
    /\ stack' = SetTop(Stepped(Top, Top.pc + 1))
    /\ ev' = Event("op", "", Null, "unimplemented")
    /\ UNCHANGED <<storeObjs, globalStore, clinitRuns, loaderRest, vmVars>>

---------------------------------------------------------------------------
(* The class loader (class_loader.py).                                     *)

IsExternalSdkClass(c) == c \in ExternalSdkClasses

\* _load_static_field_values: a class with an initial value in its class
\* definition gets field s set to it.
LoadStaticFieldValues(prog, s, c, tag) ==
    IF IsExternalSdkClass(c) THEN s
    ELSE IF c \in Classes /\ prog.seed[c] THEN StoreSet(s, c, "s", IntV(9), tag)
    ELSE s

\* _run_clinit(c) up to the point where its interpreter loop starts: the
\* heap and the global afterwards, and run = TRUE when a <clinit> interpreter
\* has to be started (run = FALSE: the call has already returned).
RunClinit(objs, g, prog, c, tag) ==
    LET got == GetStaticFieldStore(objs, g)
        s0  == got.objs[got.g]
        s1  == LoadStaticFieldValues(prog, s0, c, tag)
    IN  IF IsClassInitialized(s0, c)
          THEN [objs |-> got.objs, g |-> got.g, run |-> FALSE, path |-> "already"]
        ELSE IF ~FindMethod(prog, c, "<clinit>")
          THEN [objs |-> [got.objs EXCEPT ![got.g] = MarkClassInitialized(s1, c, tag)],
                g |-> got.g, run |-> FALSE, path |-> "noclinit"]
        ELSE IF ~HasBytecode(prog, c, "<clinit>")
          THEN [objs |-> [got.objs EXCEPT ![got.g] = MarkClassInitialized(s1, c, tag)],
                g |-> got.g, run |-> FALSE, path |-> "nobytecode"]
        ELSE [objs |-> [got.objs EXCEPT ![got.g] = s1],
              g |-> got.g, run |-> TRUE, path |-> "run"]

\* The interpreters execute_method(c, name) puts on the stack: its own, and
\* on top of it the one of _run_clinit(c) when that has to run first.
MethodFrames(c, name, r, args) ==
    LET child == WithArgs(NewFrame("method", c, name, r.g),
                          LoadArguments(NumRegs, args), args)
    IN  IF r.run THEN << child, NewFrame("clinit", c, "<clinit>", r.g) >>
                 ELSE << child >>

\* decode_invoke_args: the values of the argument registers of the invoke.
InvokeArgs(f, ins) == [i \in 1..Len(ins.v) |-> f.regs[ins.v[i] + 1]]

CountRun(runs, c, r) == IF r.run THEN [runs EXCEPT ![c] = @ + 1] ELSE runs

\* invoke-static on a method that resolve_and_execute cannot run: dx does
\* not hold it, or it has no code item.  execute_method returns None before
\* it looks at the class.
ExecInvokeStaticNoCode ==
    /\ stack # << >>
    /\ Dispatches(Top, "invoke-static")
    /\ LET f == Top
           ins == CurIns(f)
       IN  /\ ~HasBytecode(program, ins.cls, ins.name)
           /\ stack' = SetTop(Stepped([f EXCEPT !.last = Boxed(Null)], f.pc + 1))
           /\ ev' = Event("invoke", ins.cls, Null,
                          IF FindMethod(program, ins.cls, ins.name) THEN "nobytecode"
                                                                    ELSE "notfound")
    /\ UNCHANGED <<storeObjs, globalStore, clinitRuns, loaderRest, vmVars>>

\* invoke-static on a method with bytecode: execute_method runs the class's
\* <clinit> if the class is not marked, then the method.
ExecInvokeStatic ==
    /\ stack # << >>
    /\ Dispatches(Top, "invoke-static")
    /\ LET ins == CurIns(Top)
           r == RunClinit(storeObjs, globalStore, program, ins.cls, phase)
           new == MethodFrames(ins.cls, ins.name, r, InvokeArgs(Top, ins))
       IN  /\ HasBytecode(program, ins.cls, ins.name)
           /\ Len(stack) + Len(new) <= MaxDepth
           /\ storeObjs' = r.objs
           /\ globalStore' = r.g
           /\ stack' = stack \o new
           /\ clinitRuns' = CountRun(clinitRuns, ins.cls, r)
           /\ ev' = IF r.run THEN Event("clinit_start", ins.cls, Null, "")
                    ELSE WithRC(Event("call", ins.cls, Null, r.path), ins.cls)
    /\ UNCHANGED <<loaderRest, vmVars>>

\* How the loop of a frame ended.
ExitPath(f) ==
    IF f.finished /\ f.kind # "clinit" THEN "finished"
    ELSE IF f.pc >= Len(FrameCode(f)) THEN "end"
    ELSE IF f.step >= MaxSteps(f.kind) THEN "cap"
    ELSE IF CurIns(f).op = "return-void" THEN "return-void"
    ELSE "unimpl"

\* The loop of _run_clinit or execute_method is over: the while condition is
\* false or the body took a break.
LoopOver(f) ==
    IF CanFetch(f)
      THEN CurIns(f).op \notin (Handled \ (IF f.kind = "clinit" THEN {"return-void"} ELSE {}))
      ELSE TRUE

\* _run_clinit after its loop: mark the class on the handle taken at entry.
ClinitExit ==
    /\ stack # << >>
    /\ Top.kind = "clinit"
    /\ LoopOver(Top)
    /\ storeObjs' = [storeObjs EXCEPT ![Top.store] = MarkClassInitialized(@, Top.cls, phase)]
    /\ stack' = SubSeq(stack, 1, Len(stack) - 1)
    /\ ev' = WithRC(Event("clinit_return", Top.cls, Null, ExitPath(Top)), Top.cls)
    /\ UNCHANGED <<globalStore, clinitRuns, loaderRest, vmVars>>

\* What execute_method returns from the child interpreter's last_result.
MethodResult(f) == IF f.last.box THEN f.last.val ELSE Null

\* execute_method after its loop; the invoke handler of the caller stores the
\* value in last_result and goes on.
MethodExit ==
    /\ stack # << >>
    /\ Top.kind = "method"
    /\ LoopOver(Top)
    /\ LET f == Top
           ret == MethodResult(f)
           n == Len(stack)
       IN  /\ stack' = IF n = 1 THEN << >>
                       ELSE [SubSeq(stack, 1, n - 1) EXCEPT ![n - 1] =
                               Stepped([@ EXCEPT !.last = Boxed(ret)], @.pc + 1)]
           /\ ev' = Event("method_return", f.cls, ret, ExitPath(f))
    /\ UNCHANGED <<storeObjs, globalStore, clinitRuns, loaderRest, vmVars>>

\* The driver's own _run_clinit (main, resolve_args_by_execution) is still
\* running: its interpreter sits right above the slice or target VM, which
\* has not started.
InDriverClinit ==
    /\ Len(stack) >= 2
    /\ stack[1].kind \in {"slice", "target"}
    /\ stack[2].kind = "clinit"

\* The nesting of interpreters exhausts the Python stack: RecursionError
\* unwinds every loop.  Only emulate_with_args catches it (except Exception)
\* and turns it into an "ERROR: ..." result; elsewhere (the slice loop, the
\* driver's _run_clinit calls) the caller of the class loader sees the
\* exception, and the driver dies.
RaiseRecursionError ==
    /\ stack # << >>
    /\ Dispatches(Top, "invoke-static")
    /\ LET ins == CurIns(Top)
           r == RunClinit(storeObjs, globalStore, program, ins.cls, phase)
       IN  /\ HasBytecode(program, ins.cls, ins.name)
           /\ Len(stack) + Len(MethodFrames(ins.cls, ins.name, r, << >>)) > MaxDepth
    /\ stack' = << >>
    /\ LET caught == stack[1].kind = "target" /\ ~InDriverClinit
       IN  /\ ev' = Event("raise", Top.cls, Null,
                          IF InDriverClinit THEN "clinit" ELSE stack[1].kind)
           /\ results' = IF caught
                           THEN Append(results, [ok |-> FALSE, val |-> Null])
                           ELSE results
           /\ phase' = IF phase.ph = "env" THEN phase
                       ELSE IF caught THEN phase
                       ELSE [phase EXCEPT !.ph = "crashed"]
    /\ UNCHANGED <<storeObjs, globalStore, clinitRuns, program, call_sites, calls, vmVars>>

---------------------------------------------------------------------------
(* The environment of the class loader: any caller of the module.          *)

NoRuns == [c \in AllClasses |-> 0]

\* reset_static_field_store()
EnvReset ==
    /\ phase.ph = "env" /\ stack = << >> /\ calls < MaxCalls
    /\ LET r == ResetStaticFieldStore(storeObjs, globalStore)
       IN  storeObjs' = r.objs /\ globalStore' = r.g
    /\ clinitRuns' = NoRuns
    /\ calls' = calls + 1
    /\ ev' = Event("reset", "", Null, "")
    /\ UNCHANGED <<stack, program, call_sites, phase, results, vmVars>>

\* class_loader._run_clinit(c)
EnvRunClinit(c) ==
    /\ phase.ph = "env" /\ stack = << >> /\ calls < MaxCalls
    /\ LET r == RunClinit(storeObjs, globalStore, program, c, phase)
       IN  /\ storeObjs' = r.objs
           /\ globalStore' = r.g
           /\ stack' = IF r.run THEN << NewFrame("clinit", c, "<clinit>", r.g) >> ELSE << >>
           /\ clinitRuns' = CountRun(clinitRuns, c, r)
           /\ ev' = IF r.run THEN Event("clinit_start", c, Null, "")
                    ELSE WithRC(Event("clinit_return", c, Null, r.path), c)
    /\ calls' = calls + 1
    /\ UNCHANGED <<program, call_sites, phase, results, vmVars>>

\* class_loader.execute_method(c->m, [], None)
EnvExecuteMethod(c) ==
    /\ phase.ph = "env" /\ stack = << >> /\ calls < MaxCalls
    /\ FindMethod(program, c, "m")
    /\ IF ~HasBytecode(program, c, "m")
         THEN /\ ev' = Event("method_return", c, Null, "nobytecode")
              /\ UNCHANGED <<storeObjs, globalStore, stack, clinitRuns>>
         ELSE LET r == RunClinit(storeObjs, globalStore, program, c, phase)
              IN  /\ storeObjs' = r.objs
                  /\ globalStore' = r.g
                  /\ stack' = MethodFrames(c, "m", r, << >>)
                  /\ clinitRuns' = CountRun(clinitRuns, c, r)
                  /\ ev' = IF r.run THEN Event("clinit_start", c, Null, "")
                           ELSE WithRC(Event("call", c, Null, r.path), c)
    /\ calls' = calls + 1
    /\ UNCHANGED <<program, call_sites, phase, results, vmVars>>

---------------------------------------------------------------------------
(* The driver (emulate.py main).  The target method is LA;->t, its call    *)
(* sites lie in methods of LB;.  phase.ph is the driver's position and     *)
(* phase.site counts the items of the current loop already started.        *)

TargetClass == "LA;"
CallerClass == "LB;"

Phase(ph, n) == [ph |-> ph, site |-> n]

\* Every call site is invoke-static {v1}, LA;->t.  With all arguments
\* resolved statically (slice "none") the site passes the constant 3.
SiteArgRegs == << 1 >>
StaticArgs == << IntV(3) >>

\* resolve_args_by_execution: the values of the argument registers after
\* the slice has run, None for a register that is still null.
ResolvedArgs(regs) == [i \in 1..Len(SiteArgRegs) |-> regs[SiteArgRegs[i] + 1]]

\* main: reset_static_field_store() before the dependency classes are
\* initialized.
DriverStartup ==
    /\ phase.ph = "start"
    /\ LET r == ResetStaticFieldStore(storeObjs, globalStore)
       IN  storeObjs' = r.objs /\ globalStore' = r.g
    /\ clinitRuns' = NoRuns
    /\ phase' = Phase("deps", 0)
    /\ ev' = Event("reset", "", Null, "")
    /\ UNCHANGED <<stack, program, call_sites, calls, results, vmVars>>

\* main: _run_clinit for the next class of sorted(deps.classes_needing_init).
DriverInitClass ==
    /\ phase.ph = "deps" /\ stack = << >>
    /\ phase.site < Len(program.deps)
    /\ LET c == program.deps[phase.site + 1]
           tag == Phase("deps", phase.site + 1)
           r == RunClinit(storeObjs, globalStore, program, c, tag)
       IN  /\ storeObjs' = r.objs
           /\ globalStore' = r.g
           /\ stack' = IF r.run THEN << NewFrame("clinit", c, "<clinit>", r.g) >> ELSE << >>
           /\ clinitRuns' = CountRun(clinitRuns, c, r)
           /\ phase' = tag
           /\ ev' = IF r.run THEN Event("clinit_start", c, Null, "")
                    ELSE WithRC(Event("clinit_return", c, Null, r.path), c)
    /\ UNCHANGED <<program, call_sites, calls, results, vmVars>>

\* main: the initialization loop is over, find_all_call_sites begins.
DriverFindCallSites ==
    /\ phase.ph = "deps" /\ stack = << >>
    /\ phase.site = Len(program.deps)
    /\ phase' = Phase("args", 0)
    /\ ev' = Event("driver", "", Null, "find_all_call_sites")
    /\ UNCHANGED <<storeObjs, globalStore, stack, clinitRuns, program, call_sites, calls, results, vmVars>>

\* find_all_call_sites, next call site: the arguments are known statically
\* (slice "none"), or resolve_args_by_execution resets the store, runs the
\* caller class's <clinit> and executes the dependency slice.
DriverResolveArgs ==
    /\ phase.ph = "args" /\ stack = << >>
    /\ phase.site < NumSites
    /\ LET site == phase.site + 1
           tag == Phase("args", site)
           rs == ResetStaticFieldStore(storeObjs, globalStore)
           r == RunClinit(rs.objs, rs.g, program, CallerClass, tag)
           slice == NewFrame("slice", CallerClass, "caller", site)
       IN  /\ phase' = tag
           /\ IF program.slice[site] = "none"
                THEN /\ ev' = Event("driver", "", Null, "static args")
                     /\ call_sites' = Append(call_sites, StaticArgs)
                     /\ UNCHANGED <<storeObjs, globalStore, stack, clinitRuns>>
                ELSE /\ storeObjs' = r.objs
                     /\ call_sites' = call_sites
                     /\ globalStore' = r.g
                     /\ clinitRuns' = CountRun(NoRuns, CallerClass, r)
                     /\ stack' = IF r.run
                                   THEN << slice, NewFrame("clinit", CallerClass, "<clinit>", r.g) >>
                                   ELSE << slice >>
                     /\ ev' = Event("reset", "", Null, "args")
    /\ UNCHANGED <<program, calls, results, vmVars>>

\* resolve_args_by_execution: every dependency instruction has been run.
SliceExit ==
    /\ stack # << >>
    /\ Top.kind = "slice"
    /\ ~CanFetch(Top)
    /\ stack' = << >>
    /\ call_sites' = Append(call_sites, ResolvedArgs(Top.regs))
    /\ ev' = Event("driver", "", Null, "args resolved")
    /\ UNCHANGED <<storeObjs, globalStore, clinitRuns, program, calls, phase, results, vmVars>>

\* main: all call sites are collected, the emulation loop begins.
DriverEmulateSites ==
    /\ phase.ph = "args" /\ stack = << >>
    /\ phase.site = NumSites
    /\ phase' = Phase("sites", 0)
    /\ ev' = Event("driver", "", Null, "emulate")
    /\ UNCHANGED <<storeObjs, globalStore, stack, clinitRuns, program, call_sites, calls, results, vmVars>>

\* main, next call site: reset_static_field_store(), a new class loader,
\* _run_clinit(target_class), then emulate_with_args starts the target.
DriverSite ==
    /\ phase.ph = "sites" /\ stack = << >>
    /\ phase.site < NumSites
    /\ LET tag == Phase("sites", phase.site + 1)
           rs == ResetStaticFieldStore(storeObjs, globalStore)
           r == RunClinit(rs.objs, rs.g, program, TargetClass, tag)
           args == call_sites[phase.site + 1]
           target == WithArgs(NewFrame("target", TargetClass, "t", r.g),
                              LoadTargetArguments(NumRegs, args), args)
       IN  /\ phase' = tag
           /\ storeObjs' = r.objs
           /\ globalStore' = r.g
           /\ clinitRuns' = CountRun(NoRuns, TargetClass, r)
           /\ stack' = IF r.run
                         THEN << target, NewFrame("clinit", TargetClass, "<clinit>", r.g) >>
                         ELSE << target >>
           /\ ev' = Event("reset", "", Null, "site")
    /\ UNCHANGED <<program, call_sites, calls, results, vmVars>>

\* emulate_with_args after its loop: the result is appended to results.
TargetExit ==
    /\ stack # << >>
    /\ Top.kind = "target"
    /\ ~CanFetch(Top)
    /\ results' = Append(results, [ok |-> TRUE, val |-> MethodResult(Top)])
    /\ stack' = << >>
    /\ ev' = Event("target_return", Top.cls, MethodResult(Top), ExitPath(Top))
    /\ UNCHANGED <<storeObjs, globalStore, clinitRuns, program, call_sites, calls, phase, vmVars>>

\* main: the summary is printed.
DriverDone ==
    /\ phase.ph = "sites" /\ stack = << >>
    /\ phase.site = NumSites
    /\ phase' = Phase("done", NumSites)
    /\ ev' = Event("driver", "", Null, "done")
    /\ UNCHANGED <<storeObjs, globalStore, stack, clinitRuns, program, call_sites, calls, results, vmVars>>

---------------------------------------------------------------------------
(* Part I as a state machine.                                              *)

\* Archives the class loader is called on by its environment.
EnvPrograms ==
    { [clinit |-> cl, m |-> m, seed |-> [c \in Classes |-> c = "LA;"],
       t |-> "none", slice |-> [i \in 1..NumSites |-> "none"], deps |-> << >>] :
        cl \in { f \in [Classes -> ClinitIds] : f["LB;"] \in {"none", "put", "other"} },
        m \in { f \in [Classes -> MethodIds] : f["LA;"] # "ret" /\ f["LB;"] \in {"ret", "nocode"} } }

\* Archives the driver is run on.
DriverPrograms ==
    { [clinit |-> cl, m |-> [c \in Classes |-> m],
       seed |-> [c \in Classes |-> c = "LA;"],
       t |-> t, slice |-> sl, deps |-> d] :
        m \in {"void", "mutual"},
        cl \in { f \in [Classes -> {"none", "put", "other", "unimpl"}] :
                     f["LB;"] \in {"none", "put", "self"} },
        t \in {"nocode", "ret", "peek", "capinv", "alloc", "unimpl", "other", "rec",
               "arg", "pass"},
        sl \in { f \in [1..NumSites -> {"none", "void", "other"}] : f[1] # f[2] },
        d \in {<< >>, <<"LA;", "LB;">>} }

\* Part II does not run while Part I does.
VMIdle ==
    /\ bytecode = << >>
    /\ pc = 0
    /\ registers = << >>
    /\ finished = FALSE
    /\ last_result = NoResult
    /\ last = [p |-> 0, op |-> -1, regs |-> << >>, taken |-> FALSE, err |-> FALSE,
               res |-> NoResult]
    /\ ObjIdle

InitLoader ==
    /\ \/ phase = Phase("env", 0) /\ program \in EnvPrograms
       \/ phase = Phase("start", 0) /\ program \in DriverPrograms
    /\ storeObjs = << >>
    /\ globalStore = 0
    /\ stack = << >>
    /\ ev = Event("init", "", Null, "")
    /\ clinitRuns = NoRuns
    /\ calls = 0
    /\ results = << >>
    /\ call_sites = << >>
    /\ VMIdle
    /\ SlicerIdle

NextLoader ==
    \/ ExecConst \/ ExecSput \/ ExecSget \/ ExecNewInstance \/ ExecInvokeDirect
    \/ ExecMoveResult \/ ExecReturn \/ ExecReturnVoid \/ ExecGoto
    \/ ExecUnimplemented
    \/ ExecInvokeStaticNoCode \/ ExecInvokeStatic \/ RaiseRecursionError
    \/ ClinitExit \/ MethodExit
    \/ EnvReset
    \/ \E c \in AllClasses : EnvRunClinit(c)
    \/ \E c \in Classes : EnvExecuteMethod(c)
    \/ DriverStartup \/ DriverInitClass \/ DriverFindCallSites
    \/ DriverResolveArgs \/ SliceExit \/ DriverEmulateSites
    \/ DriverSite \/ TargetExit \/ DriverDone

SpecLoader == InitLoader /\ [][NextLoader]_vars

---------------------------------------------------------------------------
(* Part II: one DalvikVM over raw bytecode (vm.py, opcodes/).              *)
(* Offsets are 0-based as in the source: byte i of vm.bytecode is          *)
(* bytecode[i + 1].                                                        *)

Max(a, b) == IF a >= b THEN a ELSE b
Min(a, b) == IF a <= b THEN a ELSE b

\* bc[a:b] of a Python bytes object: negative bounds count from the end,
\* bounds are clipped, an empty range gives b''.
PySlice(bc, a, b) ==
    LET n  == Len(bc)
        na == IF a < 0 THEN Max(a + n, 0) ELSE Min(a, n)
        nb == IF b < 0 THEN Max(b + n, 0) ELSE Min(b, n)
    IN  IF na >= nb THEN << >> ELSE SubSeq(bc, na + 1, nb)

\* bc[i] of a Python bytes object: defined for -len <= i < len.
PyIndexOk(bc, i) == -Len(bc) <= i /\ i < Len(bc)
PyIndex(bc, i) == bc[(IF i < 0 THEN i + Len(bc) ELSE i) + 1]

RECURSIVE FromBytes(_)
\* int.from_bytes(bs, 'little')
FromBytes(bs) ==
    IF bs = << >> THEN 0 ELSE bs[1] + 256 * FromBytes(Tail(bs))

RECURSIVE Pow256(_)
Pow256(n) == IF n = 0 THEN 1 ELSE 256 * Pow256(n - 1)

\* int.from_bytes(bs, 'little', signed=True): two's complement over the
\* bytes present.
FromBytesSigned(bs) ==
    IF bs = << >> THEN 0
    ELSE LET n   == Len(bs)
             top == bs[n]
         IN  FromBytes(SubSeq(bs, 1, n - 1))
               + Pow256(n - 1) * (IF top >= 128 THEN top - 256 ELSE top)

\* vm.read_u16(offset)
read_u16(bc, offset) == FromBytes(PySlice(bc, offset, offset + 2))

\* A string object made by const-string for string index idx.
StrV(idx) == [t |-> "str", i |-> idx, c |-> "Ljava/lang/String;"]

\* Registers.__getitem__ raises IndexError outside the list.
RegOk(regs, idx) == idx < Len(regs)
\* Registers.__setitem__: the list grows up to idx.
RegSet(regs, idx, v) ==
    [i \in 1..Max(Len(regs), idx + 1) |->
        IF i = idx + 1 THEN v ELSE IF i <= Len(regs) THEN regs[i] ELSE Null]
\* Registers.get_int: 0 for a missing register and for a non-int value.
get_int(regs, idx) ==
    IF idx >= Len(regs) THEN 0
    ELSE IF regs[idx + 1].t = "int" THEN regs[idx + 1].i ELSE 0

---------------------------------------------------------------------------
(* Instruction encodings, as the handlers' docstrings give them.  n is     *)
(* written in two's complement over w bytes, little-endian.                *)

RECURSIVE LE(_, _)
LE(n, w) == IF w = 0 THEN << >> ELSE << n % 256 >> \o LE(n \div 256, w - 1)

I10x(op)             == << op, 0 >>
I12x(op, a, b)       == << op, b * 16 + a >>
I11n(op, a, lit)     == << op, (lit % 16) * 16 + a >>
I11x(op, aa)         == << op, aa >>
I10t(op, k)          == << op, k % 256 >>
I20t(op, k)          == << op, 0 >> \o LE(k, 2)
I30t(op, k)          == << op, 0 >> \o LE(k, 4)
I21(op, aa, v)       == << op, aa >> \o LE(v, 2)
I22t(op, a, b, k)    == << op, b * 16 + a >> \o LE(k, 2)
I31(op, aa, v)       == << op, aa >> \o LE(v, 4)
I32x(op, aaaa, bbbb) == << op, 0 >> \o LE(aaaa, 2) \o LE(bbbb, 2)
\* 35c with at most one argument register c: A|G op BBBB F|E|D|C
I35c(op, a, bbbb, c) == << op, a * 16 >> \o LE(bbbb, 2) \o << c, 0 >>

RECURSIVE Words(_)
\* A list of 32-bit values, little-endian.
Words(vs) == IF vs = << >> THEN << >> ELSE LE(vs[1], 4) \o Words(Tail(vs))

\* packed-switch-payload: ident 0x0100, size, first_key, targets.
PackedPayload(first_key, targets) ==
    LE(256, 2) \o LE(Len(targets), 2) \o LE(first_key, 4) \o Words(targets)

\* sparse-switch-payload: ident 0x0200, size, keys, targets.
SparsePayload(keys, targets) ==
    LE(512, 2) \o LE(Len(keys), 2) \o Words(keys) \o Words(targets)

\* The encoded length in bytes of the instruction with opcode op, from its
\* format; 0 for an opcode that is not in the dispatch table.
InsnLength(op) ==
    CASE op \in {0, 14}                  -> 2   \* 10x  nop, return-void
      [] op \in {1, 7}                   -> 2   \* 12x  move, move-object
      [] op \in {2, 8}                   -> 4   \* 22x  move/from16
      [] op \in {3, 9}                   -> 6   \* 32x  move/16
      [] op \in {10, 15, 16, 17}         -> 2   \* 11x  move-result, return*
      [] op = 18                         -> 2   \* 11n  const/4
      [] op = 19                         -> 4   \* 21s  const/16
      [] op = 20                         -> 6   \* 31i  const
      [] op = 26                         -> 4   \* 21c  const-string
      [] op = 27                         -> 6   \* 31c  const-string/jumbo
      [] op = 40                         -> 2   \* 10t  goto
      [] op = 41                         -> 4   \* 20t  goto/16
      [] op = 42                         -> 6   \* 30t  goto/32
      [] op \in {43, 44}                 -> 6   \* 31t  packed-switch, sparse-switch
      [] op \in 50..55                   -> 4   \* 22t  if-test
      [] op \in 56..61                   -> 4   \* 21t  if-testz
      [] op = 113                        -> 6   \* 35c  invoke-static
      [] op \in {4, 11, 12}              -> 2   \* 12x, 11x  move-wide, move-result-wide/-object
      [] op = 5                          -> 4   \* 22x  move-wide/from16
      [] op = 6                          -> 6   \* 32x  move-wide/16
      [] op \in {22, 25}                 -> 4   \* 21s, 21h  const-wide/16, const-wide/high16
      [] op = 23                         -> 6   \* 31i  const-wide/32
      [] op = 24                         -> 10  \* 51l  const-wide
      [] op \in {34, 35}                 -> 4   \* 21c, 22c  new-instance, new-array
      [] op = 38                         -> 6   \* 31t  fill-array-data
      [] op \in 68..81                   -> 4   \* 23x  aget*, aput*
      [] op \in 82..95                   -> 4   \* 22c  iget*, iput*
      [] op \in 96..109                  -> 4   \* 21c  sget*, sput*
      [] op \in (110..114) \cup (116..120) -> 6  \* 35c, 3rc  invoke-kind, invoke-kind/range
      [] op \in 123..143                 -> 2   \* 12x  neg, not, conversions
      [] op \in 144..175                 -> 4   \* 23x  binary operations
      [] op \in 176..207                 -> 2   \* 12x  binary operations /2addr
      [] op \in 208..215                 -> 4   \* 22s  binary operations /lit16
      [] op \in 216..226                 -> 4   \* 22b  binary operations /lit8
      [] OTHER                           -> 0

---------------------------------------------------------------------------
(* dispatch(vm): vm.step() fetches the opcode and moves pc behind it, the  *)
(* handler does the rest.  In a handler vm.pc is pc + 1.                   *)

\* opcode = vm.bytecode[vm.pc]
Opcode == PyIndex(bytecode, pc)

\* The dependency pcs the slice loop of resolve_args_by_execution has not
\* yet dispatched: the loop runs over them in ascending order and ends at
\* the first that is not before the call.
SliceTodo ==
    { d \in dependency_pcs : d < call_pc /\ (last.op = -1 \/ d > last.p) }
\* dep_pc of the next iteration
NextDep == CHOOSE d \in SliceTodo : \A e \in SliceTodo : d <= e
\* vm.pc = dep_pc has been assigned and dispatch(vm) is the next statement.
AtDependency == stage.ph = "executing" /\ SliceTodo # {} /\ pc = NextDep

\* The loop around dispatch: while vm.pc < len(bytecode) and not finished.
\* The loop of _run_clinit (phase.ph = "clinit") does not look at finished
\* and ends on a return-void before any handler runs.
Running ==
    /\ ~last.err
    /\ bytecode # << >>
    /\ pc < Len(bytecode)
    /\ IF phase.ph = "clinit" THEN Opcode # 14
       ELSE IF phase.ph = "resolve" THEN AtDependency
       ELSE ~finished

Hist(taken) ==
    [p |-> pc, op |-> Opcode, regs |-> registers, taken |-> taken, err |-> FALSE,
     res |-> last_result]

\* A handler that leaves finished and last_result alone.
VMStep(newpc, newregs, taken) ==
    /\ pc' = newpc
    /\ registers' = newregs
    /\ last' = Hist(taken)
    /\ UNCHANGED <<bytecode, finished, last_result, loaderVars>>

\* Opcodes without an entry in HANDLERS.
Unassigned == (62..67) \cup {115, 121, 122} \cup (227..255)

\* Handlers that read vm.bytecode[vm.pc] by index.
ReadsOperandByte == {1, 7, 2, 8, 10, 15, 16, 17, 18, 19, 20, 26, 27, 43, 44, 113}
                    \cup (50..61)
\* Handlers that read vm.registers[vm.bytecode[vm.pc]] outside a try block.
ReadsRegister == {15, 16, 17} \cup (56..61)

\* decode_invoke_args (35c): the argument registers c, d, e, f, g cut to
\* the argument count; vpc is the handler's pc.
decode_invoke_regs(bc, vpc) ==
    LET byte1 == PyIndex(bc, vpc)
        byte4 == PyIndex(bc, vpc + 3)
        byte5 == IF vpc + 4 < Len(bc) THEN PyIndex(bc, vpc + 4) ELSE 0
        arg_count == (byte1 \div 16) % 16
    IN  SubSeq(<< byte4 % 16, (byte4 \div 16) % 16, byte5 % 16, (byte5 \div 16) % 16,
                  byte1 % 16 >>, 1, Min(arg_count, 5))

decode_invoke_method_idx(bc, vpc) == PyIndex(bc, vpc + 1) + 256 * PyIndex(bc, vpc + 2)

\* decode_invoke_args raises no IndexError.
InvokeDecodes ==
    /\ \A k \in 1..4 : PyIndexOk(bytecode, pc + k)
    /\ \A r \in { decode_invoke_regs(bytecode, pc + 1)[i] :
                     i \in DOMAIN decode_invoke_regs(bytecode, pc + 1) } :
          RegOk(registers, r)

\* vm.step() and the handler of the fetched opcode raise no IndexError:
\* the opcode, the operand byte and the register can be read.
NoException ==
    /\ PyIndexOk(bytecode, pc)
    /\ Opcode \in ReadsOperandByte => PyIndexOk(bytecode, pc + 1)
    /\ Opcode \in ReadsRegister => RegOk(registers, PyIndex(bytecode, pc + 1))
    /\ Opcode = 113 => InvokeDecodes

\* The handler of the fetched opcode runs to its end.
Handles(ops) ==
    /\ Running
    /\ NoException
    /\ Opcode \in ops

\* IndexError leaves dispatch.
dispatch_raises ==
    /\ Running
    /\ ~NoException
    /\ last' = [p |-> pc, op |-> -1, regs |-> registers, taken |-> FALSE, err |-> TRUE,
                 res |-> last_result]
    /\ pc' = IF PyIndexOk(bytecode, pc) THEN pc + 1 ELSE pc
    /\ UNCHANGED <<bytecode, registers, finished, last_result, loaderVars>>

\* An opcode without handler: a warning, pc stays behind the opcode byte.
dispatch_unimplemented ==
    /\ Handles(Unassigned)
    /\ VMStep(pc + 1, registers, FALSE)

\* 0x00: lambda vm: None
execute_nop ==
    /\ Handles({0})
    /\ VMStep(pc + 1, registers, FALSE)

execute_move ==
    /\ Handles({1, 7})
    /\ LET byte1 == PyIndex(bytecode, pc + 1)
           dst == byte1 % 16
           src == byte1 \div 16
       IN  VMStep((pc + 1) + 1,
                  IF RegOk(registers, src) THEN RegSet(registers, dst, registers[src + 1])
                                           ELSE registers,
                  FALSE)

execute_move_from16 ==
    /\ Handles({2, 8})
    /\ LET aa == PyIndex(bytecode, pc + 1)
           bbbb == read_u16(bytecode, (pc + 1) + 1)
       IN  VMStep((pc + 1) + 3,
                  IF RegOk(registers, bbbb) THEN RegSet(registers, aa, registers[bbbb + 1])
                                            ELSE registers,
                  FALSE)

execute_move_16 ==
    /\ Handles({3, 9})
    /\ LET aaaa == read_u16(bytecode, pc + 1)
           bbbb == read_u16(bytecode, (pc + 1) + 2)
       IN  VMStep((pc + 1) + 4,
                  IF RegOk(registers, bbbb) THEN RegSet(registers, aaaa, registers[bbbb + 1])
                                            ELSE registers,
                  FALSE)

execute_move_result ==
    /\ Handles({10})
    /\ LET reg == PyIndex(bytecode, pc + 1)
       IN  VMStep((pc + 1) + 1,
                  RegSet(registers, reg, IF last_result.box THEN last_result.val ELSE Null),
                  FALSE)

execute_return_void ==
    /\ Handles({14})
    /\ finished' = TRUE
    /\ last_result' = Boxed(Null)
    /\ pc' = pc + 1
    /\ last' = Hist(FALSE)
    /\ UNCHANGED <<bytecode, registers, loaderVars>>

\* Variant: a return that hands back register 0 whatever register it names.
ReturnedFirstRegister(regs, reg) == Boxed(regs[1])

\* vm.last_result = vm.registers[reg]
ReturnedValue(regs, reg) == Boxed(regs[reg + 1])

execute_return ==
    /\ Handles({15})
    /\ LET reg == PyIndex(bytecode, pc + 1)
       IN  last_result' = ReturnedValue(registers, reg)
    /\ finished' = TRUE
    /\ pc' = (pc + 1) + 1
    /\ last' = Hist(FALSE)
    /\ UNCHANGED <<bytecode, registers, loaderVars>>

execute_return_wide ==
    /\ Handles({16})
    /\ LET reg == PyIndex(bytecode, pc + 1)
       IN  last_result' = ReturnedValue(registers, reg)
    /\ finished' = TRUE
    /\ pc' = (pc + 1) + 1
    /\ last' = Hist(FALSE)
    /\ UNCHANGED <<bytecode, registers, loaderVars>>

execute_return_object ==
    /\ Handles({17})
    /\ LET reg == PyIndex(bytecode, pc + 1)
       IN  last_result' = ReturnedValue(registers, reg)
    /\ finished' = TRUE
    /\ pc' = (pc + 1) + 1
    /\ last' = Hist(FALSE)
    /\ UNCHANGED <<bytecode, registers, loaderVars>>

\* The methods of the archive by method index: index 1 is
\* Ljava/lang/Math;->abs(I)I, every other index a method without hook.
\* _builtin_static_hooks on the trace text of the invoke: the value the hook
\* returns (some = FALSE for Python None).
builtin_static_hooks(method_idx, args) ==
    IF method_idx = 1 /\ args # << >>
      THEN [some |-> TRUE,
            val |-> IF args[1].t = "int"
                      THEN IntV(IF args[1].i < 0 THEN 0 - args[1].i ELSE args[1].i)
                      ELSE IntV(0)]
      ELSE [some |-> FALSE, val |-> Null]

\* invoke-static in an interpreter without hook, resolver and class loader:
\* the built-in hook's value, or RegisterValue(None); pc moves 5 bytes on.
execute_invoke_static ==
    /\ Handles({113})
    /\ LET regs == decode_invoke_regs(bytecode, pc + 1)
           args == [i \in 1..Len(regs) |-> registers[regs[i] + 1]]
           ret_val == builtin_static_hooks(decode_invoke_method_idx(bytecode, pc + 1), args)
       IN  last_result' = IF ret_val.some THEN Boxed(ret_val.val) ELSE Boxed(Null)
    /\ pc' = (pc + 1) + 5
    /\ last' = Hist(FALSE)
    /\ UNCHANGED <<bytecode, registers, finished, loaderVars>>

execute_const_4 ==
    /\ Handles({18})
    /\ LET byte1 == PyIndex(bytecode, pc + 1)
           reg == byte1 % 16
           val == (byte1 \div 16) % 16
       IN  VMStep((pc + 1) + 1,
                  RegSet(registers, reg, IntV(IF val > 7 THEN val - 16 ELSE val)),
                  FALSE)

execute_const_16 ==
    /\ Handles({19})
    /\ LET reg == PyIndex(bytecode, pc + 1)
           val == FromBytesSigned(PySlice(bytecode, (pc + 1) + 1, (pc + 1) + 3))
       IN  VMStep((pc + 1) + 3, RegSet(registers, reg, IntV(val)), FALSE)

execute_const ==
    /\ Handles({20})
    /\ LET reg == PyIndex(bytecode, pc + 1)
           val == FromBytesSigned(PySlice(bytecode, (pc + 1) + 1, (pc + 1) + 5))
       IN  VMStep((pc + 1) + 5, RegSet(registers, reg, IntV(val)), FALSE)

\* const-string, and const-string/jumbo which shares the handler.
execute_const_string ==
    /\ Handles({26, 27})
    /\ LET reg == PyIndex(bytecode, pc + 1)
           string_idx == read_u16(bytecode, (pc + 1) + 1)
       IN  VMStep((pc + 1) + 3, RegSet(registers, reg, StrV(string_idx)), FALSE)

---------------------------------------------------------------------------
(* Control flow (opcodes/control.py).                                      *)

\* Variant: a branch relative to the operand instead of the opcode.
BranchTargetFromOperand(vpc, offset) == vpc + (offset * 2)

\* vm.pc = (vm.pc - 1) + (offset * 2), with vm.pc the handler's pc.
BranchTarget(vpc, offset) == (vpc - 1) + (offset * 2)

execute_goto ==
    /\ Handles({40})
    /\ LET offset == FromBytesSigned(PySlice(bytecode, pc + 1, (pc + 1) + 1))
       IN  VMStep(BranchTarget(pc + 1, offset), registers, TRUE)

execute_goto_16 ==
    /\ Handles({41})
    /\ LET offset == FromBytesSigned(PySlice(bytecode, (pc + 1) + 1, (pc + 1) + 3))
       IN  VMStep(BranchTarget(pc + 1, offset), registers, TRUE)

execute_goto_32 ==
    /\ Handles({42})
    /\ LET offset == FromBytesSigned(PySlice(bytecode, (pc + 1) + 1, (pc + 1) + 5))
       IN  VMStep(BranchTarget(pc + 1, offset), registers, TRUE)

\* The lambdas of execute_if_eq .. execute_if_le (0x32 .. 0x37).
IfTestCondition(op, a, b) ==
    CASE op = 50 -> a = b
      [] op = 51 -> a # b
      [] op = 52 -> a < b
      [] op = 53 -> a >= b
      [] op = 54 -> a > b
      [] OTHER   -> a <= b

\* _execute_if_test
execute_if_test ==
    /\ Handles(50..55)
    /\ LET byte1 == PyIndex(bytecode, pc + 1)
           a == byte1 % 16
           b == byte1 \div 16
           offset == FromBytesSigned(PySlice(bytecode, (pc + 1) + 1, (pc + 1) + 3))
           taken == IfTestCondition(Opcode, get_int(registers, a), get_int(registers, b))
       IN  VMStep(IF taken THEN BranchTarget(pc + 1, offset) ELSE (pc + 1) + 3,
                  registers, taken)

\* The lambdas of execute_if_eqz .. execute_if_lez (0x38 .. 0x3d).
IfTestzCondition(op, v) ==
    CASE op = 56 -> v = 0
      [] op = 57 -> v # 0
      [] op = 58 -> v < 0
      [] op = 59 -> v >= 0
      [] op = 60 -> v > 0
      [] OTHER   -> v <= 0

\* The operand of _execute_if_testz: None counts as 0, any other non-int as 1.
TestzValue(r) ==
    IF r.t = "null" THEN 0 ELSE IF r.t = "int" THEN r.i ELSE 1

\* _execute_if_testz
execute_if_testz ==
    /\ Handles(56..61)
    /\ LET reg == PyIndex(bytecode, pc + 1)
           offset == FromBytesSigned(PySlice(bytecode, (pc + 1) + 1, (pc + 1) + 3))
           taken == IfTestzCondition(Opcode, TestzValue(registers[reg + 1]))
       IN  VMStep(IF taken THEN BranchTarget(pc + 1, offset) ELSE (pc + 1) + 3,
                  registers, taken)

\* execute_packed_switch: the pc it leaves, and whether it jumped.
PackedSwitch(bc, vpc, regs) ==
    LET reg == PyIndex(bc, vpc)
        offset == FromBytesSigned(PySlice(bc, vpc + 1, vpc + 5))
        switch_val == get_int(regs, reg)
        instr_start == vpc - 1
        payload_addr == instr_start + (offset * 2)
        ident == FromBytes(PySlice(bc, payload_addr, payload_addr + 2))
        size == FromBytes(PySlice(bc, payload_addr + 2, payload_addr + 4))
        first_key == FromBytesSigned(PySlice(bc, payload_addr + 4, payload_addr + 8))
        idx == switch_val - first_key
        target_offset_addr == (payload_addr + 8) + (idx * 4)
        target_offset == FromBytesSigned(PySlice(bc, target_offset_addr, target_offset_addr + 4))
        skip == [pc |-> vpc + 5, taken |-> FALSE]
    IN  IF payload_addr + 8 > Len(bc) THEN skip
        ELSE IF ident # 256 THEN skip
        ELSE IF first_key <= switch_val /\ switch_val < first_key + size
                /\ target_offset_addr + 4 <= Len(bc)
          THEN [pc |-> instr_start + (target_offset * 2), taken |-> TRUE]
        ELSE skip

execute_packed_switch ==
    /\ Handles({43})
    /\ LET r == PackedSwitch(bytecode, pc + 1, registers)
       IN  VMStep(r.pc, registers, r.taken)

RECURSIVE SparseSearch(_, _, _, _, _, _)
\* The for loop of execute_sparse_switch from index i on.
SparseSearch(bc, vpc, switch_val, payload_addr, size, i) ==
    LET keys_start == payload_addr + 4
        targets_start == keys_start + (size * 4)
        key_addr == keys_start + (i * 4)
        key == FromBytesSigned(PySlice(bc, key_addr, key_addr + 4))
        target_addr == targets_start + (i * 4)
        target_offset == FromBytesSigned(PySlice(bc, target_addr, target_addr + 4))
        skip == [pc |-> vpc + 5, taken |-> FALSE]
    IN  IF i >= size THEN skip
        ELSE IF key_addr + 4 > Len(bc) THEN skip
        ELSE IF key = switch_val /\ target_addr + 4 <= Len(bc)
          THEN [pc |-> (vpc - 1) + (target_offset * 2), taken |-> TRUE]
        ELSE SparseSearch(bc, vpc, switch_val, payload_addr, size, i + 1)

\* execute_sparse_switch: the pc it leaves, and whether it jumped.
SparseSwitch(bc, vpc, regs) ==
    LET reg == PyIndex(bc, vpc)
        offset == FromBytesSigned(PySlice(bc, vpc + 1, vpc + 5))
        switch_val == get_int(regs, reg)
        payload_addr == (vpc - 1) + (offset * 2)
        ident == FromBytes(PySlice(bc, payload_addr, payload_addr + 2))
        size == FromBytes(PySlice(bc, payload_addr + 2, payload_addr + 4))
        skip == [pc |-> vpc + 5, taken |-> FALSE]
    IN  IF payload_addr + 4 > Len(bc) THEN skip
        ELSE IF ident # 512 THEN skip
        ELSE SparseSearch(bc, vpc, switch_val, payload_addr, size, 0)

execute_sparse_switch ==
    /\ Handles({44})
    /\ LET r == SparseSwitch(bytecode, pc + 1, registers)
       IN  VMStep(r.pc, registers, r.taken)

---------------------------------------------------------------------------
(* Part II as a state machine.  A method is two nops, the instruction      *)
(* under study at byte offset 4, a return-void, and for the switches a     *)
(* payload at byte offset 12.                                              *)

Method(insn, payload) == I10x(0) \o I10x(0) \o insn \o I10x(14) \o payload

BranchOffsets == {-2, 3}

StraightInsns ==
    { I10x(0), I12x(1, 0, 1), I12x(7, 1, 0), I12x(1, 0, 5), I21(2, 0, 1),
      I32x(3, 0, 0), I32x(3, 0, 3840), I11x(10, 0), I10x(14), I11x(15, 1),
      I11n(18, 0, -1), I21(19, 0, -2), I31(20, 1, 70000), I21(26, 0, 1),
      I31(27, 0, 1), I10x(62), I11x(15, 9), I11x(16, 0), I11x(17, 1),
      I35c(113, 1, 1, 0), I35c(113, 0, 0, 0), I35c(113, 1, 1, 9) }

BranchInsns ==
    { I10t(40, k) : k \in BranchOffsets \cup {-1, 1} }
    \cup { I20t(41, k) : k \in BranchOffsets }
    \cup { I30t(42, k) : k \in BranchOffsets }
    \cup { I22t(op, 0, 1, k) : op \in 50..55, k \in BranchOffsets }
    \cup { I21(op, 0, k) : op \in 56..61, k \in BranchOffsets }

\* Offsets of a switch to its payload: the payload at byte 12, an address
\* before the method, an address behind it.
PayloadOffsets == {4, -8, 20}

Payloads ==
    { PackedPayload(0, <<3>>), PackedPayload(-1, <<-2, 3>>),
      SparsePayload(<<0>>, <<3>>), SparsePayload(<<-1, 1>>, <<-2, 3>>) }

Methods ==
    { Method(i, << >>) : i \in StraightInsns \cup BranchInsns }
    \cup { Method(I31(op, 0, k), pl) : op \in {43, 44}, k \in PayloadOffsets, pl \in Payloads }

RegValues == { Null, IntV(-1), IntV(0), IntV(1), StrV(1) }

\* Part I does not run while Part II does.
LoaderIdle ==
    /\ program = [clinit |-> [c \in Classes |-> "none"], m |-> [c \in Classes |-> "none"],
                  seed |-> [c \in Classes |-> FALSE], t |-> "none",
                  slice |-> [i \in 1..NumSites |-> "none"], deps |-> << >>]
    /\ storeObjs = << >>
    /\ globalStore = 0
    /\ stack = << >>
    /\ ev = Event("init", "", Null, "")
    /\ clinitRuns = NoRuns
    /\ calls = 0
    /\ phase = Phase("vm", 0)
    /\ results = << >>
    /\ call_sites = << >>

\* A DalvikVM after construction; the caller may have set vm.pc to the
\* instruction it wants executed, and loaded argument registers.
InitVM ==
    /\ bytecode \in Methods
    /\ pc \in {0, 4}
    /\ registers \in [1..NumRegs -> RegValues]
    /\ finished = FALSE
    /\ last_result = NoResult
    /\ last = [p |-> 0, op |-> -1, regs |-> << >>, taken |-> FALSE, err |-> FALSE,
               res |-> NoResult]
    /\ LoaderIdle
    /\ SlicerIdle
    /\ ObjIdle

NextVM ==
    \/ dispatch_raises \/ dispatch_unimplemented
    \/ execute_nop \/ execute_move \/ execute_move_from16 \/ execute_move_16
    \/ execute_move_result \/ execute_return_void \/ execute_return
    \/ execute_return_wide \/ execute_return_object \/ execute_invoke_static
    \/ execute_const_4 \/ execute_const_16 \/ execute_const \/ execute_const_string
    \/ execute_goto \/ execute_goto_16 \/ execute_goto_32
    \/ execute_if_test \/ execute_if_testz
    \/ execute_packed_switch \/ execute_sparse_switch

SpecVM == InitVM /\ [][NextVM]_vars

\* Every opcode the interpreter fetches is one the model has a handler for.
FetchModelled ==
    (Running /\ PyIndexOk(bytecode, pc)) =>
        Opcode \in {0, 1, 7, 2, 8, 3, 9, 10, 14, 15, 16, 17, 18, 19, 20, 26, 27,
                    40, 41, 42, 43, 44, 113}
                   \cup (50..61) \cup Unassigned

---------------------------------------------------------------------------
(* Properties of Part I (specification SpecLoader).                        *)

FieldNames == {"f", "g", "s"}

\* C1: between two resets of the static-field store, the bytecode of each
\* class's <clinit> is executed at most once, over any sequence and nesting
\* of _run_clinit and execute_method calls.
C1_ClinitAtMostOnce ==
    \A c \in AllClasses : clinitRuns[c] <= 1

\* C2: _run_clinit(C) puts C in the initialization-attempted set before the
\* first instruction of C's <clinit> executes, so that no chain of nested
\* initializations starts C's <clinit> again: every running <clinit>
\* interpreter belongs to a class that is in the set, and no class has two
\* of them.
C2_MarkedBeforeClinitRuns ==
    \A i \in 1..Len(stack) :
        stack[i].kind = "clinit" =>
            /\ IsClassInitialized(storeObjs[stack[i].store], stack[i].cls)
            /\ \A j \in 1..Len(stack) :
                  (stack[j].kind = "clinit" /\ stack[j].cls = stack[i].cls) => j = i

\* The last step completed an opcode that names class ev.cls.
OpcodeNamingClassDone ==
    /\ stack # << >>
    /\ ev.cls \in Classes
    /\ ev.kind \in {"sget", "sput", "new-instance", "invoke", "method_return"}

\* C3: when sget, sput, new-instance or an invoke of a method of class C
\* completes, C is in the initialization-attempted set (its <clinit> has
\* been run).
C3_OpcodeInitializesClass ==
    OpcodeNamingClassDone =>
        globalStore # 0 /\ IsClassInitialized(CurStore, ev.cls)

\* The target method is about to execute its first instruction.
TargetStarts ==
    /\ stack # << >>
    /\ Top.kind = "target"
    /\ Top.step = 0

\* C4: at the start of each target execution the store holds only what was
\* written since the reset made for this call site (the target class's
\* seeding and <clinit>): nothing written while resolving arguments or for
\* an earlier call site is visible.
C4_TargetStartsClean ==
    TargetStarts =>
        /\ Top.store = globalStore
        /\ phase.ph = "sites"
        /\ \A k \in DOMAIN CurStore.fields : CurStore.wtag[k] = phase
        /\ \A c \in CurStore.initialized : CurStore.itag[c] = phase

\* A target starts for the second call site, after static fields were
\* written while resolving arguments and in the run for the first site.
C4_Witness ==
    /\ TargetStarts
    /\ phase = Phase("sites", 2)
    /\ DOMAIN CurStore.fields # {}
    /\ \E i \in 1..Len(storeObjs) :
          \E k \in DOMAIN storeObjs[i].fields : storeObjs[i].wtag[k].ph = "args"
    /\ \E i \in 1..Len(storeObjs) :
          \E k \in DOMAIN storeObjs[i].fields : storeObjs[i].wtag[k] = Phase("sites", 1)

\* reset_static_field_store() has just returned.
JustReset == ev.kind = "reset" /\ ev.flag = ""

\* C5: immediately after reset_static_field_store(), the store obtained
\* through get_static_field_store() returns the default for every class and
\* field and reports no class as initialized, whatever was set or marked
\* before.
C5_ResetGivesEmptyStore ==
    JustReset =>
        LET got == GetStaticFieldStore(storeObjs, globalStore)
            s == got.objs[got.g]
        IN  \A c \in AllClasses :
               /\ ~IsClassInitialized(s, c)
               /\ \A f \in FieldNames, d \in {Null, IntV(0), IntV(8)} :
                     StoreGet(s, c, f, d) = d

\* A reset after a store object got fields and initialized classes.
C5_Witness ==
    /\ JustReset
    /\ \E i \in 1..Len(storeObjs) :
          /\ i # globalStore
          /\ DOMAIN storeObjs[i].fields # {}
          /\ storeObjs[i].initialized # {}

\* C6: after _run_clinit(C) returns, is_class_initialized(C) is true, on
\* every path.
C6_ClinitReturnMarks ==
    ev.rc # "" => globalStore # 0 /\ IsClassInitialized(CurStore, ev.rc)

\* _run_clinit returned because its loop reached the step cap.
C6_Witness ==
    /\ ev.kind = "clinit_return"
    /\ ev.flag = "cap"
    /\ ev.rc \in Classes

\* C10: when execute_method stops a callee because the step cap is reached,
\* the call returns null, whatever the callee's invokes left in its
\* last-result slot.
C10_CappedCallReturnsNull ==
    (ev.kind = "method_return" /\ ev.flag = "cap") => ev.val = Null

---------------------------------------------------------------------------
(* Properties of Part II (specification SpecVM).  The expected behaviour   *)
(* is read off the instruction as the Dalvik format lays it out: byte i of *)
(* the method is bytecode[i + 1], operands are two's complement.           *)

ByteAt(i) == bytecode[i + 1]
U16At(i) == ByteAt(i) + 256 * ByteAt(i + 1)
S8(b) == IF b >= 128 THEN b - 256 ELSE b
S16At(i) == ByteAt(i) + 256 * S8(ByteAt(i + 1))
S32At(i) == U16At(i) + 65536 * S16At(i + 2)

\* The last step dispatched a whole instruction of the method.
WholeInsn ==
    /\ ~last.err
    /\ InsnLength(last.op) > 0
    /\ 0 <= last.p
    /\ last.p + InsnLength(last.op) <= Len(bytecode)

\* C7: for every opcode of the dispatch table, when dispatch executes the
\* instruction at byte offset p of encoded length L and no branch is taken,
\* the program counter afterwards is p + L.
C7_PcAdvancesByLength ==
    (WholeInsn /\ ~last.taken) => pc = last.p + InsnLength(last.op)

\* The register operand of the last if-test / if-testz, and its value as an
\* int (null compares as 0).
IntLike(r) == r.t \in {"int", "null"}
AsInt(r) == IF r.t = "int" THEN r.i ELSE 0
RegA == last.regs[(ByteAt(last.p + 1) % 16) + 1]
RegB == last.regs[(ByteAt(last.p + 1) \div 16) + 1]
RegAA == last.regs[ByteAt(last.p + 1) + 1]

Compare(rel, a, b) ==
    CASE rel = 0 -> a = b
      [] rel = 1 -> a # b
      [] rel = 2 -> a < b
      [] rel = 3 -> a >= b
      [] rel = 4 -> a > b
      [] OTHER   -> a <= b

\* The signed branch offset k of the last goto / if, in 16-bit units.
BranchOffsetK ==
    CASE last.op = 40 -> S8(ByteAt(last.p + 1))
      [] last.op = 42 -> S32At(last.p + 2)
      [] OTHER        -> S16At(last.p + 2)

\* The condition of the last goto / if on the registers it found.
BranchCondition ==
    CASE last.op \in 40..42 -> TRUE
      [] last.op \in 50..55 -> Compare(last.op - 50, AsInt(RegA), AsInt(RegB))
      [] OTHER              -> Compare(last.op - 56, AsInt(RegAA), 0)

\* The last step was a goto, or an if on int operands.
BranchDone ==
    /\ WholeInsn
    /\ last.op \in (40..42) \cup (50..61)
    /\ last.op \in 50..55 => ByteAt(last.p + 1) \div 16 < Len(last.regs)
    /\ last.op \in 56..61 => ByteAt(last.p + 1) < Len(last.regs)
    /\ last.op \in 50..55 => IntLike(RegA) /\ IntLike(RegB)
    /\ last.op \in 56..61 => IntLike(RegAA)

\* C8: goto, goto/16, goto/32 and an if-test / if-testz whose condition
\* holds, executed at byte offset p with signed offset k, leave the program
\* counter at p + 2k; an if whose condition does not hold leaves it at p + 4.
C8_BranchesLand ==
    BranchDone =>
        pc = IF BranchCondition THEN last.p + 2 * BranchOffsetK ELSE last.p + 4

\* An if-lt on two ints was taken backwards.
C8_Witness ==
    /\ BranchDone
    /\ last.op = 52
    /\ BranchCondition
    /\ BranchOffsetK < 0
    /\ pc < last.p

\* The payload address of the last switch, and the value switched on.
PayloadAddr == last.p + 2 * S32At(last.p + 2)
SwitchSize == U16At(PayloadAddr + 2)

\* The whole payload of the last switch lies inside the bytecode.
PayloadInside ==
    /\ 0 <= PayloadAddr
    /\ PayloadAddr + 4 <= Len(bytecode)
    /\ IF last.op = 43
         THEN PayloadAddr + 8 + 4 * SwitchSize <= Len(bytecode)
         ELSE PayloadAddr + 4 + 8 * SwitchSize <= Len(bytecode)

\* The indexes of the payload entries that match value v.
PackedMatches(v) ==
    { i \in 0..(SwitchSize - 1) : v = S32At(PayloadAddr + 4) + i }
SparseMatches(v) ==
    { i \in 0..(SwitchSize - 1) : v = S32At(PayloadAddr + 4 + 4 * i) }

\* Where the last switch has to go on value v: the target of the matching
\* entry of a well-formed payload, else the next instruction.
SwitchExpected(v) ==
    IF ~PayloadInside THEN last.p + 6
    ELSE IF last.op = 43
      THEN IF U16At(PayloadAddr) = 256 /\ PackedMatches(v) # {}
             THEN last.p + 2 * S32At(PayloadAddr + 8 + 4 * (v - S32At(PayloadAddr + 4)))
             ELSE last.p + 6
      ELSE IF U16At(PayloadAddr) = 512 /\ SparseMatches(v) # {}
             THEN LET i == CHOOSE i \in SparseMatches(v) :
                              \A j \in SparseMatches(v) : i <= j
                  IN  last.p + 2 * S32At(PayloadAddr + 4 + 4 * SwitchSize + 4 * i)
             ELSE last.p + 6

\* The last step was a switch on an int register.
SwitchDone ==
    /\ WholeInsn
    /\ last.op \in {43, 44}
    /\ ByteAt(last.p + 1) < Len(last.regs)
    /\ RegAA.t = "int"

\* C9: packed-switch and sparse-switch at byte offset p on value v jump to
\* p + 2 * target of the entry matching v when the payload at p + 2 * offset
\* is well-formed; in every other case (no matching key, wrong identifier,
\* payload outside the bytecode) the program counter becomes p + 6; no
\* register changes.
C9_SwitchLands ==
    SwitchDone =>
        /\ pc = SwitchExpected(RegAA.i)
        /\ registers = last.regs


---------------------------------------------------------------------------
(* Termination of the driver.                                              *)

\* Part I under the scheduling of a sequential Python program: whenever a
\* step is possible, some step is taken.
SpecLoaderFair == SpecLoader /\ WF_vars(NextLoader)

\* main has printed its summary, or an exception has ended the process.
DriverOver == phase.ph \in {"done", "crashed"}

\* C11: every run of the driver comes to an end, whatever the archive holds
\* (loops without exit, a method invoking itself, methods invoking each
\* other): every interpreter loop is left after a bounded number of steps.
C11_DriverTerminates == (phase.ph = "start") ~> DriverOver

\* The driver is over after a target that never returns was cut off by its
\* step cap, or after a self-recursive target exhausted the Python stack.
C11_Witness ==
    /\ DriverOver
    /\ program.t \in {"capinv", "rec"}
    /\ Len(results) = NumSites
    /\ \E i \in 1..NumSites : ~results[i].ok


\* The returns (opcodes/return_.py).
ReturnOps == {15, 16, 17}
ReturnDone == last.op \in ReturnOps /\ ~last.err
ReturnVoidDone == last.op = 14 /\ ~last.err

\* C12: after return, return-wide or return-object the interpreter is
\* finished and last_result holds the value of the register the instruction
\* names; after return-void it is finished and last_result is null, also
\* when an earlier invoke had left a value there.
C12_ReturnsSetResult ==
    /\ ReturnDone =>
         /\ finished
         /\ last_result.box
         /\ last_result.val = last.regs[ByteAt(last.p + 1) + 1]
    /\ ReturnVoidDone =>
         /\ finished
         /\ last_result.val = Null

\* A return-void has run after an invoke that had stored a non-null result.
C12_Witness ==
    /\ ReturnVoidDone
    /\ last.res.box /\ last.res.val # Null
    /\ finished /\ last_result.val = Null


\* An interpreter of execute_method or emulate_with_args that has not
\* executed an instruction yet.
AtMethodStart(f) == f.kind \in {"method", "target"} /\ f.step = 0 /\ f.pc = 0

\* C13: when a method with N declared registers starts with k <= N
\* arguments, argument i is in register N - k + i (argument order, the
\* receiver being the first argument of the invoke) and every register
\* below N - k is null.
C13_ArgumentsInHighRegisters ==
    \A d \in 1..Len(stack) :
        LET f == stack[d]
            k == Len(f.args)
        IN  (AtMethodStart(f) /\ k <= NumRegs) =>
                \A r \in 0..(NumRegs - 1) :
                    f.regs[r + 1] = IF r >= NumRegs - k THEN f.args[r - (NumRegs - k) + 1]
                                                        ELSE Null

\* A method starts with one argument in a frame of two registers, and it is
\* not null.
C13_Witness ==
    \E d \in 1..Len(stack) :
        /\ AtMethodStart(stack[d])
        /\ Len(stack[d].args) = 1 /\ Len(stack[d].args) < NumRegs
        /\ stack[d].args[1] # Null
        /\ stack[d].regs[NumRegs] = stack[d].args[1]


---------------------------------------------------------------------------
(* Part III: the static analysis of a caller (emulate.py                   *)
(* find_all_call_sites, dalvik_vm/forward_lookup.py,                       *)
(* dalvik_vm/dependency_analyzer.py).  An instruction text is a Python     *)
(* string, modelled as the sequence of its characters.                     *)

Digits == <<"0", "1", "2", "3", "4", "5", "6", "7", "8", "9">>

\* s.startswith(p)
StartsWith(s, p) == Len(s) >= Len(p) /\ SubSeq(s, 1, Len(p)) = p

\* sub in s
Contains(s, sub) ==
    \E i \in 0..(Len(s) - Len(sub)) : SubSeq(s, i + 1, i + Len(sub)) = sub

\* s.isdigit()
IsDigit(s) == s # << >> /\ \A i \in 1..Len(s) : \E d \in 1..10 : Digits[d] = s[i]

RECURSIVE ToInt(_)
\* int(s) for a string of digits
ToInt(s) ==
    IF s = << >> THEN 0
    ELSE 10 * ToInt(SubSeq(s, 1, Len(s) - 1))
         + (CHOOSE d \in 0..9 : Digits[d + 1] = s[Len(s)])

RECURSIVE ToStr(_)
\* str(n) for n >= 0
ToStr(n) == IF n < 10 THEN << Digits[n + 1] >> ELSE ToStr(n \div 10) \o << Digits[(n % 10) + 1] >>

RECURSIVE SplitFrom(_, _, _)
\* s.split(): the maximal runs of non-blank characters.
SplitFrom(s, cur, acc) ==
    IF s = << >> THEN (IF cur = << >> THEN acc ELSE Append(acc, cur))
    ELSE IF Head(s) = " "
           THEN SplitFrom(Tail(s), << >>, IF cur = << >> THEN acc ELSE Append(acc, cur))
           ELSE SplitFrom(Tail(s), Append(cur, Head(s)), acc)
Split(s) == SplitFrom(s, << >>, << >>)

RECURSIVE Strip(_)
\* tok.strip(',')
Strip(tok) ==
    IF tok = << >> THEN tok
    ELSE IF Head(tok) = "," THEN Strip(Tail(tok))
    ELSE IF tok[Len(tok)] = "," THEN Strip(SubSeq(tok, 1, Len(tok) - 1))
    ELSE tok

\* part.startswith('v') and part[1:].isdigit(), on a stripped part.
IsReg(part) == StartsWith(part, <<"v">>) /\ IsDigit(Tail(part))
\* int(part[1:])
RegNum(part) == ToInt(Tail(part))
\* part.startswith('L') or part.startswith('[')
IsTypeRef(part) == StartsWith(part, <<"L">>) \/ StartsWith(part, <<"[">>)


---------------------------------------------------------------------------
(* The backward slicer (forward_lookup.py).                                *)

\* build_trace_map: the pc of instruction i is the sum of the lengths
\* before it; instrs is the method's instruction list (text and length).
RECURSIVE PcOf(_, _)
PcOf(instrs, i) == IF i = 1 THEN 0 ELSE PcOf(instrs, i - 1) + instrs[i - 1].len

build_trace_map(instrs) ==
    [p \in { PcOf(instrs, i) : i \in 1..Len(instrs) } |->
        instrs[CHOOSE i \in 1..Len(instrs) : PcOf(instrs, i) = p].text]

RECURSIVE SortedSeq(_)
\* sorted(S) for a set of integers
SortedSeq(S) ==
    IF S = {} THEN << >>
    ELSE LET lo == CHOOSE x \in S : \A y \in S : x <= y
         IN  << lo >> \o SortedSeq(S \ {lo})

\* Variant: every pc of the trace map, also those behind the target.
AllPcs(tm, target_pc) == SortedSeq(DOMAIN tm)

\* sorted([pc for pc in trace_map.keys() if pc < target_pc])
SortedPcs(tm, target_pc) == SortedSeq({ p \in DOMAIN tm : p < target_pc })

\* written_reg = None
NoReg == -1

\* parts[i] stripped of commas (i counts from 0 as in the source).
Part(parts, i) == Strip(parts[i + 1])

RECURSIVE ArgRegsOf(_)
\* The registers among the parts of an invoke, up to the first part that
\* starts with L or [.
ArgRegsOf(parts) ==
    IF parts = << >> THEN << >>
    ELSE LET p == Strip(Head(parts))
         IN  IF IsReg(p) THEN << RegNum(p) >> \o ArgRegsOf(Tail(parts))
             ELSE IF IsTypeRef(p) THEN << >>
             ELSE ArgRegsOf(Tail(parts))

SeqToSet(s) == { s[i] : i \in DOMAIN s }

\* The pcs of sorted_pcs before / behind pc.
PcsBefore(sorted_pcs, ipc) == { p \in SeqToSet(sorted_pcs) : p < ipc }
PcsBehind(sorted_pcs, ipc) == { p \in SeqToSet(sorted_pcs) : p > ipc }

\* move-result: the nearest instruction before pc whose text contains
\* "invoke" ({} when there is none).
PrevInvoke(tm, sorted_pcs, ipc) ==
    LET c == { p \in PcsBefore(sorted_pcs, ipc) : Contains(tm[p], <<"i", "n", "v", "o", "k", "e">>) }
    IN  IF c = {} THEN {} ELSE { CHOOSE p \in c : \A q \in c : q <= p }

\* new-array: the first fill-array-data behind pc that names the register.
FillArrayData(tm, sorted_pcs, ipc, reg) ==
    LET c == { p \in PcsBehind(sorted_pcs, ipc) :
                 /\ Contains(tm[p], <<"f", "i", "l", "l", "-", "a", "r", "r", "a", "y", "-", "d", "a", "t", "a">>)
                 /\ Len(Split(tm[p])) >= 2
                 /\ Part(Split(tm[p]), 1) = <<"v">> \o ToStr(reg) }
    IN  IF c = {} THEN {} ELSE { CHOOSE p \in c : \A q \in c : p <= q }

\* new-instance: the first invoke-direct of <init> behind pc whose first
\* argument is the register.
InitCall(tm, sorted_pcs, ipc, reg) ==
    LET c == { p \in PcsBehind(sorted_pcs, ipc) :
                 /\ Contains(tm[p], <<"i", "n", "v", "o", "k", "e", "-", "d", "i", "r", "e", "c", "t">>)
                 /\ Contains(tm[p], <<"<", "i", "n", "i", "t", ">">>)
                 /\ Len(Split(tm[p])) >= 2
                 /\ Part(Split(tm[p]), 1) = <<"v">> \o ToStr(reg) }
    IN  IF c = {} THEN {} ELSE { CHOOSE p \in c : \A q \in c : p <= q }

ArithmeticPrefixes ==
    { <<"a", "d", "d", "-">>, <<"s", "u", "b", "-">>, <<"m", "u", "l", "-">>, <<"d", "i", "v", "-">>, <<"r", "e", "m", "-">>, <<"a", "n", "d", "-">>, <<"o", "r", "-">>, <<"x", "o", "r", "-">> }
ConversionPrefixes == { <<"i", "n", "t", "-", "t", "o", "-">>, <<"l", "o", "n", "g", "-", "t", "o", "-">>, <<"f", "l", "o", "a", "t", "-", "t", "o", "-">>, <<"d", "o", "u", "b", "l", "e", "-", "t", "o", "-">> }

\* What one iteration of the backward loop finds out about the instruction
\* at pc: the register it writes (NoReg for None), the registers it reads,
\* and the pcs the forward and backward lookups add to dependency_pcs.
Effect(w, r, x) == [written |-> w, reads |-> r, extra |-> x]

\* The register named by parts[i], as a set ({} when it is no register).
RegAt(parts, i) == IF IsReg(Part(parts, i)) THEN { RegNum(Part(parts, i)) } ELSE {}
\* written_reg after "if reg.startswith('v') ...: written_reg = int(...)".
Written(parts, i) == IF IsReg(Part(parts, i)) THEN RegNum(Part(parts, i)) ELSE NoReg

Classify(tm, sorted_pcs, ipc) ==
    LET parts == Split(tm[ipc])
        opcode == parts[1]
        n == Len(parts)
        none == Effect(NoReg, {}, {})
    IN  IF StartsWith(opcode, <<"c", "o", "n", "s", "t">>)
          THEN IF n >= 2 THEN Effect(Written(parts, 1), {}, {}) ELSE none
        ELSE IF opcode = <<"m", "o", "v", "e">> \/ StartsWith(opcode, <<"m", "o", "v", "e", "/">>)
          THEN IF n >= 3 THEN Effect(Written(parts, 1), RegAt(parts, 2), {}) ELSE none
        ELSE IF opcode \in { <<"m", "o", "v", "e", "-", "r", "e", "s", "u", "l", "t">>, <<"m", "o", "v", "e", "-", "r", "e", "s", "u", "l", "t", "-", "o", "b", "j", "e", "c", "t">>, <<"m", "o", "v", "e", "-", "r", "e", "s", "u", "l", "t", "-", "w", "i", "d", "e">> }
          THEN IF n >= 2 /\ IsReg(Part(parts, 1))
                 THEN LET prev == PrevInvoke(tm, sorted_pcs, ipc)
                      IN  Effect(Written(parts, 1),
                                 UNION { SeqToSet(ArgRegsOf(Tail(Split(tm[p])))) : p \in prev },
                                 prev)
                 ELSE none
        ELSE IF StartsWith(opcode, <<"s", "g", "e", "t">>)
          THEN IF n >= 2 THEN Effect(Written(parts, 1), {}, {}) ELSE none
        ELSE IF StartsWith(opcode, <<"i", "g", "e", "t">>)
          THEN IF n >= 3 THEN Effect(Written(parts, 1), RegAt(parts, 2), {}) ELSE none
        ELSE IF StartsWith(opcode, <<"a", "g", "e", "t">>)
          THEN IF n >= 4
                 THEN Effect(Written(parts, 1), RegAt(parts, 2) \cup RegAt(parts, 3), {})
                 ELSE none
        ELSE IF opcode = <<"n", "e", "w", "-", "a", "r", "r", "a", "y">>
          THEN IF n >= 3
                 THEN Effect(Written(parts, 1), RegAt(parts, 2),
                             IF IsReg(Part(parts, 1))
                               THEN FillArrayData(tm, sorted_pcs, ipc, RegNum(Part(parts, 1)))
                               ELSE {})
                 ELSE none
        ELSE IF opcode = <<"n", "e", "w", "-", "i", "n", "s", "t", "a", "n", "c", "e">>
          THEN IF n >= 2 /\ IsReg(Part(parts, 1))
                 THEN LET init == InitCall(tm, sorted_pcs, ipc, RegNum(Part(parts, 1)))
                      IN  Effect(Written(parts, 1),
                                 UNION { SeqToSet(ArgRegsOf(Tail(Tail(Split(tm[p]))))) :
                                           p \in init },
                                 init)
                 ELSE none
        ELSE IF opcode = <<"c", "h", "e", "c", "k", "-", "c", "a", "s", "t">>
          THEN IF n >= 2 THEN Effect(Written(parts, 1), RegAt(parts, 1), {}) ELSE none
        ELSE IF \E prefix \in ArithmeticPrefixes : StartsWith(opcode, prefix)
          THEN IF Contains(opcode, <<"/", "2", "a", "d", "d", "r">>)
                 THEN IF n >= 3
                        THEN Effect(Written(parts, 1), RegAt(parts, 1) \cup RegAt(parts, 2), {})
                        ELSE none
               ELSE IF Contains(opcode, <<"/", "l", "i", "t">>)
                 THEN IF n >= 3 THEN Effect(Written(parts, 1), RegAt(parts, 2), {}) ELSE none
               ELSE IF n >= 4
                      THEN Effect(Written(parts, 1), RegAt(parts, 2) \cup RegAt(parts, 3), {})
                      ELSE none
        ELSE IF \E prefix \in ConversionPrefixes : StartsWith(opcode, prefix)
          THEN IF n >= 3 THEN Effect(Written(parts, 1), RegAt(parts, 2), {}) ELSE none
        ELSE none

\* One iteration of "for pc in reversed(sorted_pcs)"; st holds needed_regs
\* and dependency_pcs.
SliceStep(tm, sorted_pcs, ipc, st) ==
    IF Split(tm[ipc]) = << >> THEN st
    ELSE LET e == Classify(tm, sorted_pcs, ipc)
             deps == st.dependency_pcs \cup e.extra
         IN  IF e.written # NoReg /\ e.written \in st.needed_regs
               THEN [dependency_pcs |-> deps \cup {ipc},
                     needed_regs |-> (st.needed_regs \ {e.written}) \cup e.reads]
               ELSE [dependency_pcs |-> deps, needed_regs |-> st.needed_regs]

RECURSIVE SliceLoop(_, _, _, _)
SliceLoop(tm, sorted_pcs, k, st) ==
    IF k = 0 THEN st
    ELSE SliceLoop(tm, sorted_pcs, k - 1, SliceStep(tm, sorted_pcs, sorted_pcs[k], st))

build_register_dependencies(tm, target_pc, regs) ==
    LET sorted_pcs == SortedPcs(tm, target_pc)
    IN  IF sorted_pcs = << >> THEN {}
        ELSE SliceLoop(tm, sorted_pcs, Len(sorted_pcs),
                       [dependency_pcs |-> {}, needed_regs |-> SeqToSet(regs)]).dependency_pcs

---------------------------------------------------------------------------
(* The call-site scan (emulate.py find_all_call_sites, first pass).        *)

\* The method reference of an invoke text: the first part that starts with
\* L or [ (<< >> when there is none).
RECURSIVE MethodRef(_)
MethodRef(parts) ==
    IF parts = << >> THEN << >>
    ELSE IF IsTypeRef(Strip(Head(parts))) THEN Strip(Head(parts))
    ELSE MethodRef(Tail(parts))

\* The position of the first occurrence of sub in s (0 when there is none).
Find(s, sub) ==
    LET c == { i \in 1..(Len(s) - Len(sub) + 1) : SubSeq(s, i, i + Len(sub) - 1) = sub }
    IN  IF c = {} THEN 0 ELSE CHOOSE i \in c : \A j \in c : i <= j

\* What the analysis library resolves an instruction to: an invoke of the
\* method with this class descriptor and name, or nothing.
InvokedMethod(text) ==
    LET parts == Split(text)
        ref == IF parts = << >> THEN << >> ELSE MethodRef(Tail(parts))
        arrow == Find(ref, <<"-", ">">>)
        paren == Find(ref, <<"(">>)
    IN  IF parts # << >> /\ StartsWith(parts[1], <<"i", "n", "v", "o", "k", "e">>) /\ arrow > 0 /\ paren > arrow
          THEN [class |-> SubSeq(ref, 1, arrow - 1),
                name |-> SubSeq(ref, arrow + 2, paren - 1)]
          ELSE [class |-> << >>, name |-> << >>]

\* target_am.get_xref_from(): one cross reference per instruction of the
\* caller that invokes the target.
Xrefs(instrs, req) ==
    Cardinality({ i \in 1..Len(instrs) : InvokedMethod(instrs[i].text) = req })

\* "invoke" in instr_str and target_name in instr_str and target_class in instr_str
MatchesTarget(instr_str, target_class, target_name) ==
    /\ Contains(instr_str, <<"i", "n", "v", "o", "k", "e">>)
    /\ Contains(instr_str, target_name)
    /\ Contains(instr_str, target_class)

RECURSIVE ScanTraceMap(_, _, _, _, _)
\* for pc, (instr_str, instr_len) in trace_map.items(); st holds seen_sites
\* and site_candidates.
ScanTraceMap(tm, pcs, st, target_class, target_name) ==
    IF pcs = << >> THEN st
    ELSE LET ipc == Head(pcs)
             st1 == IF /\ MatchesTarget(tm[ipc], target_class, target_name)
                       /\ ipc \notin st.seen_sites
                      THEN [seen_sites |-> st.seen_sites \cup {ipc},
                            site_candidates |-> Append(st.site_candidates, ipc)]
                      ELSE st
         IN  ScanTraceMap(tm, Tail(pcs), st1, target_class, target_name)

RECURSIVE ScanXrefs(_, _, _, _, _)
\* for xref in xrefs: the same caller once per cross reference.
ScanXrefs(tm, n, st, target_class, target_name) ==
    IF n = 0 THEN st
    ELSE ScanXrefs(tm, n - 1,
                   ScanTraceMap(tm, SortedSeq(DOMAIN tm), st, target_class, target_name),
                   target_class, target_name)

RECURSIVE Insert(_, _)
Insert(x, s) ==
    IF s = << >> THEN << x >>
    ELSE IF x < Head(s) THEN << x >> \o s
    ELSE << Head(s) >> \o Insert(x, Tail(s))

RECURSIVE Sort(_)
\* list.sort() by pc
Sort(s) == IF s = << >> THEN << >> ELSE Insert(Head(s), Sort(Tail(s)))

find_site_candidates(tm, n, target_class, target_name) ==
    Sort(ScanXrefs(tm, n, [seen_sites |-> {}, site_candidates |-> << >>],
                   target_class, target_name).site_candidates)

---------------------------------------------------------------------------
(* Part III as a state machine.                                            *)

\* Instructions of a caller before its last one.
MaxTrace == 3

Instr(text, len) == [text |-> text, len |-> len]

BodyInstrs ==
    { Instr(<<"c", "o", "n", "s", "t", "/", "4", " ", "v", "0", ",", " ", "1">>, 2),
      Instr(<<"c", "o", "n", "s", "t", "/", "4", " ", "v", "1", ",", " ", "2">>, 2),
      Instr(<<"m", "o", "v", "e", " ", "v", "0", ",", " ", "v", "1">>, 2),
      Instr(<<"m", "o", "v", "e", "-", "o", "b", "j", "e", "c", "t", " ", "v", "0", ",", " ", "v", "1">>, 2),
      Instr(<<"s", "h", "l", "-", "i", "n", "t", " ", "v", "0", ",", " ", "v", "1", ",", " ", "v", "1">>, 4),
      Instr(<<"a", "d", "d", "-", "i", "n", "t", "/", "2", "a", "d", "d", "r", " ", "v", "0", ",", " ", "v", "1">>, 2),
      Instr(<<"s", "g", "e", "t", " ", "v", "1", ",", " ", "L", "B", ";", "-", ">", "f", " ", "I">>, 4),
      Instr(<<"i", "n", "v", "o", "k", "e", "-", "s", "t", "a", "t", "i", "c", " ", "v", "1", ",", " ", "L", "A", ";", "-", ">", "d", "e", "c", "o", "d", "e", "(", "I", ")", "I">>, 6),
      Instr(<<"m", "o", "v", "e", "-", "r", "e", "s", "u", "l", "t", " ", "v", "0">>, 2),
      Instr(<<"n", "e", "w", "-", "i", "n", "s", "t", "a", "n", "c", "e", " ", "v", "0", ",", " ", "L", "C", ";">>, 4),
      Instr(<<"i", "n", "v", "o", "k", "e", "-", "d", "i", "r", "e", "c", "t", " ", "v", "0", ",", " ", "v", "1", ",", " ", "L", "C", ";", "-", ">", "<", "i", "n", "i", "t", ">", "(", "I", ")", "V">>, 6),
      Instr(<<"n", "e", "w", "-", "a", "r", "r", "a", "y", " ", "v", "0", ",", " ", "v", "1", ",", " ", "[", "I">>, 4),
      Instr(<<"f", "i", "l", "l", "-", "a", "r", "r", "a", "y", "-", "d", "a", "t", "a", " ", "v", "0", ",", " ", "+", "8">>, 6) }

LastInstrs ==
    { Instr(<<"i", "n", "v", "o", "k", "e", "-", "s", "t", "a", "t", "i", "c", " ", "v", "0", ",", " ", "L", "A", ";", "-", ">", "d", "e", "c", "(", "I", ")", "I">>, 6),
      Instr(<<"i", "n", "v", "o", "k", "e", "-", "s", "t", "a", "t", "i", "c", " ", "v", "1", ",", " ", "v", "0", ",", " ", "L", "A", ";", "-", ">", "d", "e", "c", "(", "I", "I", ")", "I">>, 6),
      Instr(<<"r", "e", "t", "u", "r", "n", "-", "v", "o", "i", "d">>, 2) }

Callers ==
    { body \o << l >> :
        body \in UNION { [1..n -> BodyInstrs] : n \in 0..MaxTrace },
        l \in LastInstrs }

Requested == { [class |-> <<"L", "A", ";">>, name |-> <<"d", "e", "c">>] }

\* Register lists build_register_dependencies is applied to directly.
RegLists == { << 0 >>, << 1 >>, << 1, 0 >> }

Stage(ph, k) == [ph |-> ph, k |-> k]

\* The byte length of a method.
CodeSize(instrs) == PcOf(instrs, Len(instrs)) + instrs[Len(instrs)].len

\* The VM of the slice executor after construction; executed and was are
\* history: the pcs dispatched, and the VM before the last dispatch.
NewSliceVM ==
    [pc |-> 0, finished |-> FALSE, executed |-> << >>,
     was |-> [pc |-> 0, finished |-> FALSE]]

\* find_all_call_sites, first pass: the trace map of the caller and the
\* sorted candidates.
ScanCallSites ==
    /\ stage = Stage("start", 0)
    /\ trace_map' = build_trace_map(caller)
    /\ site_candidates' =
         IF Xrefs(caller, requested) = 0 THEN << >>
         ELSE find_site_candidates(trace_map', Xrefs(caller, requested),
                                   requested.class, requested.name)
    /\ stage' = Stage("scanned", 0)
    /\ UNCHANGED <<caller, requested, call_pc, arg_regs, dependency_pcs, slice_vm,
                   program, storeObjs, globalStore, stack, ev, clinitRuns, calls, phase,
                   results, call_sites, bytecode, pc, registers, finished, last_result,
                   last, objVars>>

\* find_all_call_sites, second pass, for a candidate all of whose arguments
\* extract_args_static resolved.
ResolveArgsStatically ==
    /\ stage.ph = "scanned"
    /\ stage.k < Len(site_candidates)
    /\ stage' = Stage("scanned", stage.k + 1)
    /\ UNCHANGED <<caller, requested, trace_map, site_candidates, call_pc, arg_regs,
                   dependency_pcs, slice_vm,
                   program, storeObjs, globalStore, stack, ev, clinitRuns, calls, phase,
                   results, call_sites, bytecode, pc, registers, finished, last_result,
                   last, objVars>>

\* arg_regs of resolve_args_by_execution: the registers of the invoke text.
InvokeArgRegs(tm, ipc) ==
    LET parts == IF ipc \in DOMAIN tm THEN Split(tm[ipc]) ELSE << >>
    IN  IF parts = << >> THEN << >> ELSE ArgRegsOf(Tail(parts))

\* resolve_args_by_execution up to the slice loop, for a candidate with an
\* unresolved argument.
ResolveArgsByExecution ==
    /\ stage.ph = "scanned"
    /\ stage.k < Len(site_candidates)
    /\ call_pc' = site_candidates[stage.k + 1]
    /\ arg_regs' = InvokeArgRegs(trace_map, call_pc')
    /\ dependency_pcs' = build_register_dependencies(trace_map, call_pc', arg_regs')
    /\ slice_vm' = NewSliceVM
    /\ stage' = Stage("executing", stage.k + 1)
    /\ UNCHANGED <<caller, requested, trace_map, site_candidates,
                   program, storeObjs, globalStore, stack, ev, clinitRuns, calls, phase,
                   results, call_sites, bytecode, pc, registers, finished, last_result,
                   last, objVars>>

\* Variant: the executor goes on at the pc the VM is at.
FetchAtVmPc(sorted_dep_pcs, i, vm) == IF i = 0 THEN sorted_dep_pcs[1] ELSE vm.pc

\* vm.pc = dep_pc: the pc the executor dispatches in iteration i (from 0).
DepPc(sorted_dep_pcs, i, vm) == sorted_dep_pcs[i + 1]

\* The iterations the slice loop has made.
Iterations == Len(slice_vm.executed)

\* The loop "for dep_pc in sorted_dep_pcs" is over: no pc is left, or the
\* next one is at or behind the call.
SliceLoopOver ==
    LET sorted_dep_pcs == SortedSeq(dependency_pcs)
    IN  IF Iterations < Len(sorted_dep_pcs)
          THEN sorted_dep_pcs[Iterations + 1] >= call_pc
          ELSE TRUE

\* One iteration of the slice loop: dispatch(vm) at dep_pc.  The handler
\* leaves vm.pc behind the opcode byte (it raised an exception the loop
\* catches, or does not advance) or at a branch target, here 0, and may
\* set vm.finished.
SliceDispatch ==
    /\ stage.ph = "executing"
    /\ ~SliceLoopOver
    /\ LET dep_pc == DepPc(SortedSeq(dependency_pcs), Iterations, slice_vm)
       IN  \E newpc \in {0, dep_pc + 1}, fin \in BOOLEAN :
              slice_vm' = [pc |-> newpc, finished |-> slice_vm.finished \/ fin,
                           executed |-> Append(slice_vm.executed, dep_pc),
                           was |-> [pc |-> slice_vm.pc, finished |-> slice_vm.finished]]
    /\ UNCHANGED <<caller, requested, stage, trace_map, site_candidates, call_pc,
                   arg_regs, dependency_pcs,
                   program, storeObjs, globalStore, stack, ev, clinitRuns, calls, phase,
                   results, call_sites, bytecode, pc, registers, finished, last_result,
                   last, objVars>>

\* The slice loop ends; find_all_call_sites goes on with the next candidate.
SliceDone ==
    /\ stage.ph = "executing"
    /\ SliceLoopOver
    /\ stage' = Stage("scanned", stage.k)
    /\ UNCHANGED <<caller, requested, trace_map, site_candidates, call_pc, arg_regs,
                   dependency_pcs, slice_vm,
                   program, storeObjs, globalStore, stack, ev, clinitRuns, calls, phase,
                   results, call_sites, bytecode, pc, registers, finished, last_result,
                   last, objVars>>

\* build_register_dependencies applied to a target pc and a register list
\* of the caller's choice.
BuildRegisterDependencies ==
    /\ stage = Stage("start", 0)
    /\ trace_map' = build_trace_map(caller)
    /\ \E t \in DOMAIN trace_map' \cup {CodeSize(caller)}, regs \in RegLists :
          /\ call_pc' = t
          /\ arg_regs' = regs
          /\ dependency_pcs' = build_register_dependencies(trace_map', t, regs)
    /\ stage' = Stage("sliced", 0)
    /\ UNCHANGED <<caller, requested, site_candidates, slice_vm,
                   program, storeObjs, globalStore, stack, ev, clinitRuns, calls, phase,
                   results, call_sites, bytecode, pc, registers, finished, last_result,
                   last, objVars>>

InitSlicer ==
    /\ caller \in Callers
    /\ requested \in Requested
    /\ stage = Stage("start", 0)
    /\ trace_map = << >>
    /\ site_candidates = << >>
    /\ call_pc = 0
    /\ arg_regs = << >>
    /\ dependency_pcs = {}
    /\ slice_vm = NewSliceVM
    /\ LoaderIdle
    /\ VMIdle

NextSlicer ==
    \/ ScanCallSites \/ ResolveArgsStatically \/ ResolveArgsByExecution
    \/ SliceDispatch \/ SliceDone \/ BuildRegisterDependencies

SpecSlicer == InitSlicer /\ [][NextSlicer]_vars

---------------------------------------------------------------------------
(* Properties of Part III (specification SpecSlicer).                      *)

\* build_register_dependencies has been applied: its result is in
\* dependency_pcs, its inputs in trace_map, call_pc and arg_regs.
Sliced == stage.ph \in {"sliced", "executing"}

\* C14: every pc of the set build_register_dependencies returns is a key of
\* the trace map and strictly less than the target pc, also the pcs that the
\* move-result, constructor and fill-array-data lookups add.
C14_SliceBeforeTarget ==
    Sliced => \A p \in dependency_pcs : p \in DOMAIN trace_map /\ p < call_pc

\* A slice that holds a constructor call found by the forward lookup, for a
\* target pc that is not the last of the trace map.
C14_Witness ==
    /\ Sliced
    /\ \E p \in dependency_pcs : Contains(trace_map[p], <<"<", "i", "n", "i", "t", ">">>)
    /\ \E q \in DOMAIN trace_map : q > call_pc

\* The slicer classifies the instruction at p as a writer of register r.
WritesReg(tm, target_pc, p, r) ==
    Classify(tm, SortedPcs(tm, target_pc), p).written = r

\* The registers the instruction at q reads itself: the argument registers
\* of an invoke, nothing for move-result and new-instance (whose read_regs
\* are those of the paired invoke), read_regs otherwise.
OwnReads(tm, target_pc, q) ==
    LET parts == Split(tm[q])
    IN  IF parts = << >> THEN {}
        ELSE IF Contains(tm[q], <<"i", "n", "v", "o", "k", "e">>) THEN SeqToSet(ArgRegsOf(Tail(parts)))
        ELSE IF parts[1] = <<"n", "e", "w", "-", "i", "n", "s", "t", "a", "n", "c", "e">> \/ StartsWith(parts[1], <<"m", "o", "v", "e", "-", "r", "e", "s", "u", "l", "t">>) THEN {}
        ELSE Classify(tm, SortedPcs(tm, target_pc), q).reads

\* The latest writer of r before q, as a set ({} when there is none).
LatestWriter(tm, target_pc, q, r) ==
    LET w == { p \in DOMAIN tm : p < q /\ WritesReg(tm, target_pc, p, r) }
    IN  IF w = {} THEN {} ELSE { CHOOSE p \in w : \A o \in w : o <= p }

\* C15: the slice is closed under read-write dependencies: for every pc q of
\* the slice and every register the instruction at q reads, the latest
\* instruction before q that the slicer classifies as a writer of that
\* register is in the slice too.
C15_SliceClosed ==
    Sliced => \A q \in dependency_pcs :
                 \A r \in OwnReads(trace_map, call_pc, q) :
                    LatestWriter(trace_map, call_pc, q, r) \subseteq dependency_pcs

\* The instruction kinds that write their first operand: the const family,
\* move in all its forms, static, instance and array get, new-array,
\* new-instance, check-cast, and the arithmetic of add, sub, mul, div, rem,
\* and, or, xor, shl, shr, ushr in every form.
WriterPrefixes ==
    { <<"c", "o", "n", "s", "t">>, <<"m", "o", "v", "e">>, <<"s", "g", "e", "t">>, <<"i", "g", "e", "t">>, <<"a", "g", "e", "t">>, <<"n", "e", "w", "-", "a", "r", "r", "a", "y">>, <<"n", "e", "w", "-", "i", "n", "s", "t", "a", "n", "c", "e">>,
      <<"c", "h", "e", "c", "k", "-", "c", "a", "s", "t">>, <<"a", "d", "d", "-">>, <<"s", "u", "b", "-">>, <<"m", "u", "l", "-">>, <<"d", "i", "v", "-">>, <<"r", "e", "m", "-">>, <<"a", "n", "d", "-">>, <<"o", "r", "-">>,
      <<"x", "o", "r", "-">>, <<"s", "h", "l", "-">>, <<"s", "h", "r", "-">>, <<"u", "s", "h", "r", "-">> }

\* The register the instruction text writes (NoReg when it is of no such
\* kind).
Destination(text) ==
    LET parts == Split(text)
    IN  IF /\ Len(parts) >= 2
           /\ \E prefix \in WriterPrefixes : StartsWith(parts[1], prefix)
          THEN Written(parts, 1)
          ELSE NoReg

\* The latest instruction before the target pc that writes r, as a set.
LatestWriterBefore(tm, target_pc, r) ==
    LET w == { p \in DOMAIN tm : p < target_pc /\ Destination(tm[p]) = r }
    IN  IF w = {} THEN {} ELSE { CHOOSE p \in w : \A o \in w : o <= p }

\* C16: the slicer treats every instruction of these kinds as a writer of
\* its destination register: the latest writer of an argument register
\* before the invoke is in the slice.
C16_WritersInSlice ==
    Sliced => \A i \in DOMAIN arg_regs :
                 LatestWriterBefore(trace_map, call_pc, arg_regs[i]) \subseteq dependency_pcs

---------------------------------------------------------------------------
(* Further properties of Part I (specification SpecLoader).                *)

\* C18: an exception that an opcode handler raises while a slice
\* instruction executes is caught by the slice executor, whatever its kind:
\* the executor is still there, at its next slice pc, and the driver goes
\* on.
C18_SliceCatchesEveryException ==
    ev.kind = "raise" /\ ev.flag = "slice" =>
        /\ phase.ph # "crashed"
        /\ stack # << >>
        /\ stack[1].kind = "slice"

\* C19: the driver reports one result for every call site found: when it is
\* over it has reached its summary with a result for each site, whatever
\* failed while the arguments of a site were resolved, the target class was
\* initialized, or the target ran.
C19_EverySiteReported ==
    DriverOver => phase.ph = "done" /\ Len(results) = NumSites

---------------------------------------------------------------------------
(* Further properties of Part III (specification SpecSlicer).              *)

\* find_all_call_sites has made its first pass.
Scanned == stage.ph \in {"scanned", "executing"}

\* C20: every call site find_all_call_sites records is an invoke of the
\* method with exactly the requested class descriptor and exactly the
\* requested name, and no pc of the caller is recorded twice.
C20_CallSitesInvokeTarget ==
    Scanned =>
        /\ \A i \in DOMAIN site_candidates :
              InvokedMethod(trace_map[site_candidates[i]]) = requested
        /\ \A i, j \in DOMAIN site_candidates :
              site_candidates[i] = site_candidates[j] => i = j

---------------------------------------------------------------------------
(* Further properties of Part II (specification SpecVM).                   *)

\* What a register value counts as in a conditional: null as 0, an int as
\* itself, every other reference as a non-zero value.
RefAsInt(r) == IF r.t = "null" THEN 0 ELSE IF r.t = "int" THEN r.i ELSE 1
IsRef(r) == r.t \notin {"int", "null"}

\* The last step was an if-eqz or if-nez on a null or a reference, or an
\* if-eq or if-ne between a reference and null.
RefTestDone ==
    /\ WholeInsn
    /\ \/ /\ last.op \in {56, 57}
          /\ ByteAt(last.p + 1) < Len(last.regs)
          /\ RegAA.t # "int"
       \/ /\ last.op \in {50, 51}
          /\ ByteAt(last.p + 1) \div 16 < Len(last.regs)
          /\ \/ IsRef(RegA) /\ RegB.t = "null"
             \/ IsRef(RegB) /\ RegA.t = "null"

\* C26: in the zero-compare and in the two-register conditionals null
\* compares as 0 and any other reference as non-zero: if-eqz branches on
\* null only, if-nez on a non-null reference only, and between a non-null
\* reference and null if-eq does not branch while if-ne does.
C26_NullZeroReferenceNonZero ==
    RefTestDone =>
        last.taken = CASE last.op = 56 -> RefAsInt(RegAA) = 0
                       [] last.op = 57 -> RefAsInt(RegAA) # 0
                       [] last.op = 50 -> RefAsInt(RegA) = RefAsInt(RegB)
                       [] OTHER        -> RefAsInt(RegA) # RefAsInt(RegB)

---------------------------------------------------------------------------
(* Part IV: the data opcodes (opcodes/arithmetic.py, const.py, move.py,    *)
(* array.py, field.py) and the invoke dispatch (opcodes/invoke.py).        *)
(*                                                                         *)
(* A Python int is unbounded.  Part IV carries it as a little-endian two's *)
(* complement byte string of IntBytes bytes, which is exact for every      *)
(* value two instructions produce from 64-bit operands (IntExact below).   *)

IntBytes == 16

\* The Python int n.
PyInt(n) == LE(n, IntBytes)
IntZero == PyInt(0)
IntOne == PyInt(1)

IsNeg(a) == a[Len(a)] >= 128
SignByte(a) == IF IsNeg(a) THEN 255 ELSE 0

\* int.from_bytes(bs, 'little', signed=...) as a Python int.
IntFromBytes(bs, signed) ==
    LET fill == IF signed /\ bs # << >> /\ bs[Len(bs)] >= 128 THEN 255 ELSE 0
    IN  bs \o [i \in 1..(IntBytes - Len(bs)) |-> fill]

RECURSIVE AddC(_, _, _)
AddC(a, b, c) ==
    IF a = << >> THEN << >>
    ELSE LET s == a[1] + b[1] + c
         IN  << s % 256 >> \o AddC(Tail(a), Tail(b), s \div 256)

\* a + b, ~a, -a, a - b
IntAdd(a, b) == AddC(a, b, 0)
IntNot(a) == [i \in 1..Len(a) |-> 255 - a[i]]
IntNeg(a) == AddC(IntNot(a), [i \in 1..Len(a) |-> 0], 1)
IntSub(a, b) == AddC(a, IntNot(b), 1)

\* a < b, for values whose difference is exact
IntLess(a, b) == IsNeg(IntSub(a, b))

RECURSIVE MulByte(_, _, _)
MulByte(a, d, c) ==
    IF a = << >> THEN << >>
    ELSE LET s == a[1] * d + c
         IN  << s % 256 >> \o MulByte(Tail(a), d, s \div 256)

RECURSIVE IntMul(_, _)
\* a * b
IntMul(a, b) ==
    IF a = << >> THEN << >>
    ELSE IntAdd(MulByte(a, b[1], 0),
                << 0 >> \o IntMul(SubSeq(a, 1, Len(a) - 1), Tail(b)))

Bit(f, p, q) ==
    CASE f = "and" -> p * q
      [] f = "or"  -> p + q - p * q
      [] OTHER     -> (p + q) % 2

RECURSIVE ByteOp(_, _, _, _)
ByteOp(f, x, y, n) ==
    IF n = 0 THEN 0
    ELSE Bit(f, x % 2, y % 2) + 2 * ByteOp(f, x \div 2, y \div 2, n - 1)

\* a & b, a | b, a ^ b
Bitwise(f, a, b) == [i \in 1..Len(a) |-> ByteOp(f, a[i], b[i], 8)]

RECURSIVE Pow2(_)
Pow2(n) == IF n = 0 THEN 1 ELSE 2 * Pow2(n - 1)

\* a << n
IntShl(a, n) ==
    LET k == n \div 8
        moved == [i \in 1..Len(a) |-> IF i <= k THEN 0 ELSE a[i - k]]
    IN  MulByte(moved, Pow2(n % 8), 0)

\* a >> n (arithmetic: the sign is shifted in)
IntShr(a, n) ==
    LET k == n \div 8
        r == n % 8
        At(i) == IF i + k <= Len(a) THEN a[i + k] ELSE SignByte(a)
    IN  [i \in 1..Len(a) |-> (At(i) \div Pow2(r)) + (At(i + 1) % Pow2(r)) * Pow2(8 - r)]

\* a & (2^(8w) - 1)
IntMask(a, w) == [i \in 1..Len(a) |-> IF i <= w THEN a[i] ELSE 0]

\* 2^(8w)
IntPow256(w) == [i \in 1..IntBytes |-> IF i = w + 1 THEN 1 ELSE 0]

IntAbs(a) == IF IsNeg(a) THEN IntNeg(a) ELSE a

\* Bit n of a.
BitAt(a, n) == (a[n \div 8 + 1] \div Pow2(n % 8)) % 2

RECURSIVE DivBits(_, _, _, _, _, _)
\* Long division of a >= 0 by b > 0 over the bits n down to stop: q and r
\* are the quotient and the remainder of the bits above n.
DivBits(a, b, n, stop, q, r) ==
    LET r2 == AddC(r, r, BitAt(a, n))
        fits == ~IntLess(r2, b)
        q1 == AddC(q, q, IF fits THEN 1 ELSE 0)
        r1 == IF fits THEN IntSub(r2, b) ELSE r2
    IN  IF n < stop THEN [q |-> q, r |-> r]
        ELSE IF n > stop /\ q1 = q1 /\ r1 = r1 THEN DivBits(a, b, n - 1, stop, q1, r1)
        ELSE [q |-> q1, r |-> r1]

RECURSIVE DivFrom(_, _, _)
\* Quotient and remainder of the bits 32k and up of a >= 0 by b > 0.
DivFrom(a, b, k) ==
    LET zero == [i \in 1..Len(a) |-> 0]
    IN  IF \A i \in (4 * k + 1)..Len(a) : a[i] = 0 THEN [q |-> zero, r |-> zero]
        ELSE LET h == DivFrom(a, b, k + 1)
             IN  DivBits(a, b, Min(32 * k + 31, 8 * Len(a) - 1), 32 * k, h.q, h.r)

\* Quotient and remainder of a >= 0 by b > 0.
UDivMod(a, b) == DivFrom(a, b, 0)

\* a // b of Python: the quotient rounded towards minus infinity.
IntFloorDiv(a, b) ==
    LET h == UDivMod(IntAbs(a), IntAbs(b))
    IN  IF IsNeg(a) = IsNeg(b) THEN h.q
        ELSE IF h.r = [i \in 1..Len(a) |-> 0] THEN IntNeg(h.q)
        ELSE IntNot(h.q)

\* a % b of Python: a - b * (a // b), with the sign of b.
IntMod(a, b) == IntSub(a, IntMul(b, IntFloorDiv(a, b)))

\* The value is far from the ends of the representation: one more
\* multiplication of two such values is still exact.
IntExact(a) ==
    \A i \in (IntBytes \div 2 + 1)..IntBytes : a[i] = SignByte(a)

\* The value lies in the signed 32-bit range.
InInt32(a) == \A i \in 4..IntBytes : a[i] = (IF a[4] >= 128 THEN 255 ELSE 0)

\* An int register value of Part IV.
IntW(a) == [t |-> "int", i |-> a, c |-> ""]

\* Registers.get_int on Part IV's values.
get_py_int(regs, idx) ==
    IF idx >= Len(regs) THEN IntZero
    ELSE IF regs[idx + 1].t = "int" THEN regs[idx + 1].i ELSE IntZero

---------------------------------------------------------------------------
(* opcodes/arithmetic.py: int and long arithmetic.                         *)

\* dispatch fetched an opcode of ops and the handler can index its first n
\* operand bytes.
Fetches(ops, n) ==
    /\ Running
    /\ PyIndexOk(bytecode, pc)
    /\ Opcode \in ops
    /\ \A k \in 1..n : PyIndexOk(bytecode, pc + k)

\* Binary handlers whose div and rem hand back the dividend when the
\* divisor is 0.
op_func_unguarded(k, a, b, w) ==
    IF k \in {3, 4} /\ b = IntZero THEN a
    ELSE CASE k = 0 -> IntAdd(a, b)
           [] k = 1 -> IntSub(a, b)
           [] k = 2 -> IntMul(a, b)
           [] k = 3 -> IntFloorDiv(a, b)
           [] k = 4 -> IntMod(a, b)
           [] k = 5 -> Bitwise("and", a, b)
           [] k = 6 -> Bitwise("or", a, b)
           [] k = 7 -> Bitwise("xor", a, b)
           [] k = 8 -> IntShl(a, b[1] % (8 * w))
           [] k = 9 -> IntShr(a, b[1] % (8 * w))
           [] OTHER -> IntShr(IntMask(a, w), b[1] % (8 * w))

\* The lambdas of the binary handlers, by position k in their opcode group:
\* add, sub, mul, div, rem, and, or, xor, shl, shr, ushr.  The shift count
\* is b & 0x1F (w = 4) or b & 0x3F (w = 8), ushr masks a to w bytes.
op_func(k, a, b, w) ==
    LET count == b[1] % (8 * w)
    IN  CASE k = 0  -> IntAdd(a, b)
          [] k = 1  -> IntSub(a, b)
          [] k = 2  -> IntMul(a, b)
          [] k = 3  -> IF b # IntZero THEN IntFloorDiv(a, b) ELSE IntZero
          [] k = 4  -> IF b # IntZero THEN IntMod(a, b) ELSE IntZero
          [] k = 5  -> Bitwise("and", a, b)
          [] k = 6  -> Bitwise("or", a, b)
          [] k = 7  -> Bitwise("xor", a, b)
          [] k = 8  -> IntShl(a, count)
          [] k = 9  -> IntShr(a, count)
          [] OTHER  -> IntShr(IntMask(a, w), count)

\* The lambdas of the literal handlers: position 1 is rsub (b - a).
lit_func(k, a, b) == IF k = 1 THEN IntSub(b, a) ELSE op_func(k, a, b, 4)

\* 0x90-0x9a: _arith_23x, vAA = vBB op vCC, stored as result & 0xFFFFFFFF
arith_23x ==
    /\ Fetches(144..154, 3)
    /\ LET aa == PyIndex(bytecode, pc + 1)
           bb == PyIndex(bytecode, pc + 2)
           cc == PyIndex(bytecode, pc + 3)
           result == op_func(Opcode - 144, get_py_int(registers, bb),
                             get_py_int(registers, cc), 4)
       IN  VMStep((pc + 1) + 3, RegSet(registers, aa, IntW(IntMask(result, 4))), FALSE)

\* 0xb0-0xba: _arith_2addr, vA = vA op vB; a result above 0x7FFFFFFF is
\* lowered by 0x100000000 once
arith_2addr ==
    /\ Fetches(176..186, 1)
    /\ LET a == PyIndex(bytecode, pc + 1) % 16
           b == PyIndex(bytecode, pc + 1) \div 16
           result == op_func(Opcode - 176, get_py_int(registers, a),
                             get_py_int(registers, b), 4)
           stored == IF IntLess(PyInt(2147483647), result)
                       THEN IntSub(result, IntPow256(4)) ELSE result
       IN  VMStep((pc + 1) + 1, RegSet(registers, a, IntW(stored)), FALSE)

\* 0xd0-0xd7: _arith_lit16, vA = vB op #+CCCC, stored as computed
arith_lit16 ==
    /\ Fetches(208..215, 1)
    /\ LET a == PyIndex(bytecode, pc + 1) % 16
           b == PyIndex(bytecode, pc + 1) \div 16
           lit == IntFromBytes(PySlice(bytecode, pc + 2, pc + 4), TRUE)
           result == lit_func(Opcode - 208, get_py_int(registers, b), lit)
       IN  VMStep((pc + 1) + 3, RegSet(registers, a, IntW(result)), FALSE)

\* 0xd8-0xe2: _arith_lit8, vAA = vBB op #+CC, stored as computed
arith_lit8 ==
    /\ Fetches(216..226, 2)
    /\ LET aa == PyIndex(bytecode, pc + 1)
           bb == PyIndex(bytecode, pc + 2)
           cc == IntFromBytes(PySlice(bytecode, pc + 3, pc + 4), TRUE)
           result == lit_func(Opcode - 216, get_py_int(registers, bb), cc)
       IN  VMStep((pc + 1) + 3, RegSet(registers, aa, IntW(result)), FALSE)

\* 0x7b, 0x7c: neg-int and not-int vA, vB, stored as computed
execute_neg_int ==
    /\ Fetches({123, 124}, 1)
    /\ LET dst == PyIndex(bytecode, pc + 1) % 16
           src == PyIndex(bytecode, pc + 1) \div 16
           val == get_py_int(registers, src)
           result == IF Opcode = 123 THEN IntNeg(val) ELSE IntNot(val)
       IN  VMStep((pc + 1) + 1, RegSet(registers, dst, IntW(result)), FALSE)

\* 0x9b-0xa5: _arith_long_23x; the second register of the pair is set to
\* RegisterValue(None)
arith_long_23x ==
    /\ Fetches(155..165, 3)
    /\ LET aa == PyIndex(bytecode, pc + 1)
           bb == PyIndex(bytecode, pc + 2)
           cc == PyIndex(bytecode, pc + 3)
           result == op_func(Opcode - 155, get_py_int(registers, bb),
                             get_py_int(registers, cc), 8)
       IN  VMStep((pc + 1) + 3,
                  RegSet(RegSet(registers, aa, IntW(result)), aa + 1, Null), FALSE)

\* 0xbb-0xc5: _arith_long_2addr
arith_long_2addr ==
    /\ Fetches(187..197, 1)
    /\ LET dst == PyIndex(bytecode, pc + 1) % 16
           src == PyIndex(bytecode, pc + 1) \div 16
           result == op_func(Opcode - 187, get_py_int(registers, dst),
                             get_py_int(registers, src), 8)
       IN  VMStep((pc + 1) + 1,
                  RegSet(RegSet(registers, dst, IntW(result)), dst + 1, Null), FALSE)

---------------------------------------------------------------------------
(* One DalvikVM over int and long arithmetic (specification SpecArith).    *)

I23x(op, aa, bb, cc)  == << op, aa, bb, cc >>
I22s(op, a, b, lit)   == << op, b * 16 + a >> \o LE(lit, 2)
I22b(op, aa, bb, lit) == << op, aa, bb, lit % 256 >>

Lit16s == {0, -1, 32767}
Lit8s == {0, -2, 31}

\* One instruction of every int and long form on v0 and v1.
ArithInsns ==
    { I23x(op, 2, 0, 1) : op \in 144..154 }
    \cup { I12x(op, 0, 1) : op \in (176..186) \cup {123, 124} \cup (187..197) }
    \cup { I22s(op, 0, 1, lit) : op \in 208..215, lit \in Lit16s }
    \cup { I22b(op, 0, 1, lit) : op \in 216..226, lit \in Lit8s }
    \cup { I23x(op, 0, 0, 1) : op \in 155..165 }

\* add-int, mul-int/2addr, rsub-int/lit8 and then sub-int, shl-int/2addr,
\* div-int/lit8: sequences of two int instructions.
FirstInsns == { I23x(144, 0, 0, 1), I12x(178, 0, 1), I22b(217, 0, 0, 31) }
SecondInsns == { I23x(145, 0, 0, 1), I12x(184, 0, 1), I22b(219, 0, 0, -2) }

ArithMethods ==
    { i \o I10x(14) : i \in ArithInsns }
    \cup { i \o j \o I10x(14) : i \in FirstInsns, j \in SecondInsns }

\* Operands in the signed 32-bit range, and a register that holds no int.
ArithValues ==
    { IntW(PyInt(n)) : n \in {-2147483647 - 1, -7, 0, 1, 2147483647} } \cup { Null }

InitArith ==
    /\ bytecode \in ArithMethods
    /\ pc = 0
    /\ registers \in [1..NumRegs -> ArithValues]
    /\ finished = FALSE
    /\ last_result = NoResult
    /\ last = [p |-> 0, op |-> -1, regs |-> << >>, taken |-> FALSE, err |-> FALSE,
               res |-> NoResult]
    /\ LoaderIdle
    /\ SlicerIdle
    /\ ObjIdle

NextArith ==
    \/ arith_23x \/ arith_2addr \/ arith_lit16 \/ arith_lit8 \/ execute_neg_int
    \/ arith_long_23x \/ arith_long_2addr \/ execute_return_void

SpecArith == InitArith /\ [][NextArith]_vars

---------------------------------------------------------------------------
(* Properties of SpecArith.                                                *)

\* The 32-bit int opcodes: three-register, two-address, lit16, lit8, neg, not.
IntOpcodes == (144..154) \cup (176..186) \cup (208..226) \cup {123, 124}

\* The destination register of the last arithmetic instruction, and its
\* operands as the handler read them.
ArithDest ==
    IF last.op \in (144..165) \cup (216..226)
      THEN ByteAt(last.p + 1) ELSE ByteAt(last.p + 1) % 16
ArithLeft ==
    CASE last.op \in (144..165) \cup (216..226) -> get_py_int(last.regs, ByteAt(last.p + 2))
      [] last.op \in (208..215) \cup {123, 124}  -> get_py_int(last.regs, ByteAt(last.p + 1) \div 16)
      [] OTHER -> get_py_int(last.regs, ByteAt(last.p + 1) % 16)
ArithRight ==
    CASE last.op \in 144..165 -> get_py_int(last.regs, ByteAt(last.p + 3))
      [] last.op \in 208..215 -> IntFromBytes(<<ByteAt(last.p + 2), ByteAt(last.p + 3)>>, TRUE)
      [] last.op \in 216..226 -> IntFromBytes(<<ByteAt(last.p + 3)>>, TRUE)
      [] OTHER -> get_py_int(last.regs, ByteAt(last.p + 1) \div 16)

\* The unbounded result of the last int instruction.
IntResult ==
    CASE last.op \in 144..154 -> op_func(last.op - 144, ArithLeft, ArithRight, 4)
      [] last.op \in 176..186 -> op_func(last.op - 176, ArithLeft, ArithRight, 4)
      [] last.op \in 208..215 -> lit_func(last.op - 208, ArithLeft, ArithRight)
      [] last.op \in 216..226 -> lit_func(last.op - 216, ArithLeft, ArithRight)
      [] last.op = 123        -> IntNeg(ArithLeft)
      [] OTHER                -> IntNot(ArithLeft)

\* C24: after any sequence of 32-bit int opcodes started from operands in
\* the signed 32-bit range, the destination register holds the result
\* wrapped to signed 32-bit two's complement: a value in [-2^31, 2^31 - 1]
\* congruent to the result modulo 2^32.
C24_IntResultsWrapped ==
    (WholeInsn /\ last.op \in IntOpcodes) =>
        /\ registers[ArithDest + 1].t = "int"
        /\ InInt32(registers[ArithDest + 1].i)
        /\ IntMask(registers[ArithDest + 1].i, 4) = IntMask(IntResult, 4)

\* The last instruction was a div or rem, of any int or long form, with a
\* zero divisor.
DivisionByZeroDone ==
    /\ WholeInsn
    /\ last.op \in {147, 148, 179, 180, 211, 212, 219, 220, 158, 159, 190, 191}
    /\ ArithRight = IntZero

\* C25: div and rem with a zero divisor store 0 in the destination, raise
\* nothing and advance pc by the instruction length, in the int
\* three-register, two-address, lit16 and lit8 forms and in the long
\* three-register and two-address forms.
C25_DivisionByZeroGivesZero ==
    DivisionByZeroDone =>
        /\ registers[ArithDest + 1] = IntW(IntZero)
        /\ ~last.err
        /\ pc = last.p + InsnLength(last.op)

\* A rem-long/2addr of a non-zero value by zero has been executed.
C25_Witness ==
    /\ DivisionByZeroDone
    /\ last.op = 191
    /\ ArithLeft # IntZero

---------------------------------------------------------------------------
(* Arrays and objects.  A register holds a reference to a DalvikArray or a *)
(* DalvikObject; heap maps the reference's address to the instance.        *)

\* DalvikArray(type_desc, size): data is [0] * size.
DalvikArray(type_desc, size) ==
    [k |-> "array", type_desc |-> type_desc, size |-> size,
     data |-> [i \in 1..size |-> IntW(IntZero)]]
\* DalvikObject(class_name): fields is an empty dict; attrs holds the other
\* instance attributes, internal_value = "" for a StringBuilder.
DalvikObject(class_name) ==
    [k |-> "object", class_name |-> class_name, fields |-> << >>,
     attrs |-> IF class_name = "Ljava/lang/StringBuilder;"
                 THEN ("internal_value" :> [t |-> "pystr", i |-> << >>, c |-> ""])
                 ELSE << >>]

ArrV(addr) == [t |-> "arr", i |-> addr, c |-> ""]
RefV(addr) == [t |-> "ref", i |-> addr, c |-> ""]
\* A Python float, here always one with an integral value.
FloatW(a) == [t |-> "float", i |-> a, c |-> ""]

\* isinstance(arr, DalvikArray)
IsArray(v) == v.t = "arr"
\* hasattr(obj, 'fields')
HasFields(v) == v.t = "ref"

\* The value of a small Python int as a number of the model.
Small(a) == FromBytesSigned(SubSeq(a, 1, 3))
IsSmall(a) == a = PyInt(Small(a))

\* 0 <= idx < arr.size
InBounds(idx, arr) == ~IsNeg(idx) /\ IntLess(idx, PyInt(arr.size))

\* A handler that changes the heap and leaves finished and last_result alone.
HeapStep(newpc, newregs, newheap) ==
    /\ pc' = newpc
    /\ registers' = newregs
    /\ heap' = newheap
    /\ last' = Hist(FALSE)
    /\ UNCHANGED <<bytecode, finished, last_result, hook, class_loader, mockVars>>
    /\ UNCHANGED <<program, storeObjs, globalStore, stack, ev, clinitRuns, calls,
                   phase, results, call_sites, slicerVars>>

\* An exception leaves the handler, after the writes it has made: dispatch
\* does not catch it.
HeapRaises(newpc, newregs, newheap) ==
    /\ pc' = newpc
    /\ registers' = newregs
    /\ heap' = newheap
    /\ last' = [Hist(FALSE) EXCEPT !.err = TRUE]
    /\ UNCHANGED <<bytecode, finished, last_result, hook, class_loader, mockVars>>
    /\ UNCHANGED <<program, storeObjs, globalStore, stack, ev, clinitRuns, calls,
                   phase, results, call_sites, slicerVars>>
HandlerRaises(newpc, newregs) == HeapRaises(newpc, newregs, heap)

\* 0x23 new-array vA, vB, type@CCCC.  A size no list can have raises
\* MemoryError; a negative size gives an array without elements.
execute_new_array ==
    /\ Fetches({35}, 3)
    /\ LET byte1 == PyIndex(bytecode, pc + 1)
           reg_dest == byte1 % 16
           reg_size == byte1 \div 16
           type_idx == read_u16(bytecode, pc + 2)
           size == get_py_int(registers, reg_size)
       IN  IF IsSmall(size)
             THEN HeapStep((pc + 1) + 3,
                           RegSet(registers, reg_dest, ArrV(Len(heap) + 1)),
                           Append(heap, DalvikArray(type_idx, Small(size))))
             ELSE HandlerRaises(pc + 1, registers)

\* The elements fill-array-data writes into data: the first n elements of
\* the payload at data_start, for the widths 1, 2 and 4; no other width is
\* handled.
RECURSIVE FillData(_, _, _, _, _)
FillData(bc, data, element_width, data_start, n) ==
    IF n = 0 THEN data
    ELSE LET i == n - 1
             rest == FillData(bc, data, element_width, data_start, i)
         IN  CASE element_width = 1 ->
                    [rest EXCEPT ![n] = IntW(PyInt(PyIndex(bc, data_start + i)))]
               [] element_width = 2 ->
                    [rest EXCEPT ![n] = IntW(IntFromBytes(
                        PySlice(bc, data_start + i * 2, data_start + i * 2 + 2), FALSE))]
               [] element_width = 4 ->
                    [rest EXCEPT ![n] = IntW(IntFromBytes(
                        PySlice(bc, data_start + i * 4, data_start + i * 4 + 4), TRUE))]
               [] OTHER -> rest

\* 0x26 fill-array-data vAA, +BBBBBBBB
execute_fill_array_data ==
    /\ Fetches({38}, 1)
    /\ LET reg == PyIndex(bytecode, pc + 1)
           offset == FromBytesSigned(PySlice(bytecode, pc + 2, pc + 6))
           instr_start == pc
           payload_addr == instr_start + offset * 2
           ident == read_u16(bytecode, payload_addr)
           element_width == read_u16(bytecode, payload_addr + 2)
           size == FromBytes(PySlice(bytecode, payload_addr + 4, payload_addr + 8))
           data_start == payload_addr + 8
       IN  IF ~RegOk(registers, reg) THEN HandlerRaises(pc + 1, registers)
           ELSE IF ~IsArray(registers[reg + 1])
                   \/ payload_addr + 8 > Len(bytecode)
                   \/ ident # 768
             THEN HeapStep((pc + 1) + 5, registers, heap)
           ELSE LET addr == registers[reg + 1].i
                    arr == heap[addr]
                    n == Max(Min(size, arr.size), 0)
                    \* vm.bytecode[data_start + i] raises IndexError
                    bad == {i \in 0..(n - 1) :
                               element_width = 1 /\ ~PyIndexOk(bytecode, data_start + i)}
                    done == IF bad = {} THEN n
                            ELSE CHOOSE i \in bad : \A j \in bad : i <= j
                    filled == [heap EXCEPT ![addr].data =
                                 FillData(bytecode, arr.data, element_width,
                                          data_start, done)]
                IN  IF bad # {} THEN HeapRaises(pc + 1, registers, filled)
                    ELSE HeapStep((pc + 1) + 5, registers, filled)

\* 0x44-0x4a aget vAA, vBB, vCC and its variants, which are all this handler
execute_aget ==
    /\ Fetches(68..74, 3)
    /\ LET aa == PyIndex(bytecode, pc + 1)
           bb == PyIndex(bytecode, pc + 2)
           cc == PyIndex(bytecode, pc + 3)
           idx == get_py_int(registers, cc)
       IN  IF ~RegOk(registers, bb) THEN HandlerRaises(pc + 1, registers)
           ELSE LET arr == registers[bb + 1]
                    val == IF IsArray(arr) /\ InBounds(idx, heap[arr.i])
                             THEN heap[arr.i].data[Small(idx) + 1]
                             ELSE IntW(IntZero)
                IN  HeapStep((pc + 1) + 3, RegSet(registers, aa, val), heap)

\* The value aput stores: vm.registers.get_int(aa).
aput_value(regs, aa) == IntW(get_py_int(regs, aa))

\* An aput that writes at index 0 when the index is out of bounds.
aput_index_clamped(idx, arr) ==
    IF arr.size = 0 THEN 0 ELSE IF InBounds(idx, arr) THEN Small(idx) + 1 ELSE 1

\* The position aput writes in data, 0 for none: 0 <= idx < arr.size.
aput_index(idx, arr) == IF InBounds(idx, arr) THEN Small(idx) + 1 ELSE 0

\* 0x4b-0x51 aput vAA, vBB, vCC and its variants, which are all this handler
execute_aput ==
    /\ Fetches(75..81, 3)
    /\ LET aa == PyIndex(bytecode, pc + 1)
           bb == PyIndex(bytecode, pc + 2)
           cc == PyIndex(bytecode, pc + 3)
           val == aput_value(registers, aa)
           idx == get_py_int(registers, cc)
       IN  IF ~RegOk(registers, bb) THEN HandlerRaises(pc + 1, registers)
           ELSE LET arr == registers[bb + 1]
                    at == IF IsArray(arr) THEN aput_index(idx, heap[arr.i]) ELSE 0
                IN  HeapStep((pc + 1) + 3, registers,
                             IF at = 0 THEN heap
                             ELSE [heap EXCEPT ![arr.i].data[at] = val])

---------------------------------------------------------------------------
(* Handlers that write a wide value: const.py, move.py, the long handlers  *)
(* and conversions of arithmetic.py, field.py.  The double arithmetic and  *)
(* the conversions from float and double are left out.  The vm of these    *)
(* handlers has no trace_map attribute, so every trace text is ''.         *)

\* A wide value in vN: the second register of the pair is RegisterValue(None)
WidePair(regs, reg, v) == RegSet(RegSet(regs, reg, v), reg + 1, Null)

\* 0x16 const-wide/16 vAA, #+BBBB
execute_const_wide_16 ==
    /\ Fetches({22}, 1)
    /\ LET reg == PyIndex(bytecode, pc + 1)
           val == IntFromBytes(PySlice(bytecode, pc + 2, pc + 4), TRUE)
       IN  VMStep((pc + 1) + 3, WidePair(registers, reg, IntW(val)), FALSE)

\* 0x17 const-wide/32 vAA, #+BBBBBBBB
execute_const_wide_32 ==
    /\ Fetches({23}, 1)
    /\ LET reg == PyIndex(bytecode, pc + 1)
           val == IntFromBytes(PySlice(bytecode, pc + 2, pc + 6), TRUE)
       IN  VMStep((pc + 1) + 5, WidePair(registers, reg, IntW(val)), FALSE)

\* 0x18 const-wide vAA, #+BBBBBBBBBBBBBBBB
execute_const_wide ==
    /\ Fetches({24}, 1)
    /\ LET reg == PyIndex(bytecode, pc + 1)
           val == IntFromBytes(PySlice(bytecode, pc + 2, pc + 10), TRUE)
       IN  VMStep((pc + 1) + 9, WidePair(registers, reg, IntW(val)), FALSE)

\* 0x19 const-wide/high16 vAA, #+BBBB000000000000
execute_const_wide_high16 ==
    /\ Fetches({25}, 1)
    /\ LET reg == PyIndex(bytecode, pc + 1)
           val == IntShl(IntFromBytes(PySlice(bytecode, pc + 2, pc + 4), TRUE), 48)
       IN  VMStep((pc + 1) + 3, WidePair(registers, reg, IntW(val)), FALSE)

\* vm.registers[dst] = vm.registers[src]; vm.registers[dst + 1] =
\* vm.registers[src + 1]; vm.pc += n.  The second read sees the first
\* write, and either read raises IndexError outside the register list.
MoveWide(dst, src, n) ==
    IF ~RegOk(registers, src) THEN HandlerRaises(pc + 1, registers)
    ELSE LET low == RegSet(registers, dst, registers[src + 1])
         IN  IF ~RegOk(low, src + 1) THEN HandlerRaises(pc + 1, low)
             ELSE VMStep((pc + 1) + n, RegSet(low, dst + 1, low[src + 2]), FALSE)

\* 0x04 move-wide vA, vB
execute_move_wide ==
    /\ Fetches({4}, 1)
    /\ LET byte1 == PyIndex(bytecode, pc + 1)
       IN  MoveWide(byte1 % 16, byte1 \div 16, 1)

\* 0x05 move-wide/from16 vAA, vBBBB
execute_move_wide_from16 ==
    /\ Fetches({5}, 1)
    /\ MoveWide(PyIndex(bytecode, pc + 1), read_u16(bytecode, pc + 2), 3)

\* 0x06 move-wide/16 vAAAA, vBBBB
execute_move_wide_16 ==
    /\ Fetches({6}, 0)
    /\ MoveWide(read_u16(bytecode, pc + 1), read_u16(bytecode, pc + 3), 4)

\* 0x0b move-result-wide vAA: a last_result of None is stored as
\* RegisterValue(None)
execute_move_result_wide ==
    /\ Fetches({11}, 1)
    /\ LET reg == PyIndex(bytecode, pc + 1)
       IN  VMStep((pc + 1) + 1, WidePair(registers, reg, last_result.val), FALSE)

\* float(n) of an int n below 2^53 in magnitude, which has that value.
FloatOf(a) == FloatW(a)

\* 0x7d neg-long, 0x7e not-long, 0x81 int-to-long, 0x83 int-to-double,
\* 0x86 long-to-double vA, vB
execute_unary_wide ==
    /\ Fetches({125, 126, 129, 131, 134}, 1)
    /\ LET byte1 == PyIndex(bytecode, pc + 1)
           dst == byte1 % 16
           src == byte1 \div 16
           val == get_py_int(registers, src)
           res == CASE Opcode = 125 -> IntW(IntNeg(val))
                    [] Opcode = 126 -> IntW(IntNot(val))
                    [] Opcode = 129 -> IntW(val)
                    [] OTHER        -> FloatOf(val)
       IN  VMStep((pc + 1) + 1, WidePair(registers, dst, res), FALSE)

\* obj.fields.get(field_idx, 0)
FieldsGet(fields, field_idx) ==
    IF field_idx \in DOMAIN fields THEN fields[field_idx] ELSE IntW(IntZero)

\* 0x52-0x58 iget vA, vB, field@CCCC and its variants, which are all this
\* handler, without trace text
execute_iget ==
    /\ Fetches(82..88, 1)
    /\ LET byte1 == PyIndex(bytecode, pc + 1)
           reg_dest == byte1 % 16
           reg_obj == byte1 \div 16
           field_idx == read_u16(bytecode, pc + 2)
       IN  IF ~RegOk(registers, reg_obj) THEN HandlerRaises(pc + 1, registers)
           ELSE LET obj == registers[reg_obj + 1]
                    val == IF HasFields(obj) THEN FieldsGet(heap[obj.i].fields, field_idx)
                           ELSE IntW(IntZero)
                IN  VMStep((pc + 1) + 3, RegSet(registers, reg_dest, val), FALSE)

\* A Python str.
PyStr(chars) == [t |-> "pystr", i |-> chars, c |-> ""]

\* getattr(vm, 'trace_map', {}).get(vm.pc - 1, ('', 0))[0]
TraceStr(tm, p) == IF p \in DOMAIN tm THEN tm[p] ELSE << >>

\* What the framework table hands back: None (hit is FALSE) or a value.
NoMock == [hit |-> FALSE, val |-> Null]
Mock(v) == [hit |-> TRUE, val |-> v]

\* The separator of a member reference.
Arrow == <<"-", ">">>

RECURSIVE SplitOnFrom(_, _, _, _)
\* s.split(sep) for a separator that is not empty.
SplitOnFrom(s, sep, cur, acc) ==
    IF s = << >> THEN Append(acc, cur)
    ELSE IF StartsWith(s, sep)
           THEN SplitOnFrom(SubSeq(s, Len(sep) + 1, Len(s)), sep, << >>, Append(acc, cur))
           ELSE SplitOnFrom(Tail(s), sep, Append(cur, Head(s)), acc)
SplitOn(s, sep) == SplitOnFrom(s, sep, << >>, << >>)

RECURSIVE RStrip(_, _)
\* s.rstrip(ch)
RStrip(s, ch) ==
    IF s # << >> /\ s[Len(s)] = ch THEN RStrip(SubSeq(s, 1, Len(s) - 1), ch) ELSE s

\* ANDROID_STATIC_FIELDS, as the import of mocks/dispatch.py builds it: the
\* SDK integer is the one the configuration holds at that moment, which is
\* the class default.
ANDROID_STATIC_FIELDS ==
    (<<"L", "a", "n", "d", "r", "o", "i", "d", "/", "o", "s", "/", "B", "u", "i", "l", "d", "$", "V", "E", "R", "S", "I", "O", "N", ";", "-", ">", "S", "D", "K", "_", "I", "N", "T">> :> IntW(PyInt(AndroidMockConfig.sdk_int)))
    @@ (<<"L", "j", "a", "v", "a", "/", "l", "a", "n", "g", "/", "I", "n", "t", "e", "g", "e", "r", ";", "-", ">", "T", "Y", "P", "E">> :> PyStr(<<"i", "n", "t">>))
    @@ (<<"L", "j", "a", "v", "a", "/", "l", "a", "n", "g", "/", "L", "o", "n", "g", ";", "-", ">", "T", "Y", "P", "E">> :> PyStr(<<"l", "o", "n", "g">>))

\* Variant: a table that reads the configuration at every lookup.
get_android_static_field_live(field_sig) ==
    IF field_sig = <<"L", "a", "n", "d", "r", "o", "i", "d", "/", "o", "s", "/", "B", "u", "i", "l", "d", "$", "V", "E", "R", "S", "I", "O", "N", ";", "-", ">", "S", "D", "K", "_", "I", "N", "T">>
      THEN Mock(IntW(PyInt(mock_config.sdk_int)))
    ELSE IF field_sig \in DOMAIN ANDROID_STATIC_FIELDS THEN Mock(ANDROID_STATIC_FIELDS[field_sig])
    ELSE NoMock

\* get_android_static_field: ANDROID_STATIC_FIELDS.get(field_sig)
get_android_static_field(field_sig) ==
    IF field_sig \in DOMAIN ANDROID_STATIC_FIELDS THEN Mock(ANDROID_STATIC_FIELDS[field_sig])
    ELSE NoMock

\* The loop of execute_sget over trace_str.split(): the mock value of the
\* first part that starts with L, holds "->" and names a mocked field.
RECURSIVE sget_mock_from(_)
sget_mock_from(parts) ==
    IF parts = << >> THEN NoMock
    ELSE LET part == Head(parts)
             field_sig == Head(SplitOn(RStrip(part, ","), <<":">>))
             mock_val == get_android_static_field(field_sig)
         IN  IF StartsWith(part, <<"L">>) /\ Contains(part, Arrow) /\ mock_val.hit
               THEN mock_val
               ELSE sget_mock_from(Tail(parts))
sget_mock(trace_str) ==
    IF Contains(trace_str, Arrow) THEN sget_mock_from(Split(trace_str)) ELSE NoMock

\* get_by_idx and set_by_idx take the class from the text before the first
\* "->" and the field from the text behind it; an IndexError leaves them
\* when one of the two has no word.
FieldKeyOk(trace_str) ==
    LET parts == SplitOn(trace_str, Arrow)
    IN  Split(parts[1]) # << >> /\ Split(parts[2]) # << >>
FieldKey(trace_str) ==
    LET parts == SplitOn(trace_str, Arrow)
        before == Split(parts[1])
    IN  << before[Len(before)], Head(Split(parts[2])) >>

\* StaticFieldStore.get_by_idx
get_by_idx(s, trace_str, default) ==
    IF Contains(trace_str, Arrow)
      THEN StoreGet(s, FieldKey(trace_str)[1], FieldKey(trace_str)[2], default)
      ELSE default

\* Variant: a set_by_idx whose entries go by the field name alone.
set_by_name(s, value, trace_str, tag) ==
    IF Contains(trace_str, Arrow)
      THEN LET c == FieldKey(trace_str)[1]
               f == FieldKey(trace_str)[2]
           IN  [s EXCEPT !.fields =
                   [k \in { x \in DOMAIN s.fields : x[2] = f } \cup {<<c, f>>} |-> value]
                     @@ s.fields,
                         !.wtag = (<<c, f>> :> tag) @@ s.wtag]
      ELSE s

\* StaticFieldStore.set_by_idx
set_by_idx(s, value, trace_str, tag) ==
    IF Contains(trace_str, Arrow)
      THEN StoreSet(s, FieldKey(trace_str)[1], FieldKey(trace_str)[2], value, tag)
      ELSE s

\* The field a field index names: class, name and type, as the archive's
\* field_ids list holds them.
FieldRefs ==
    << [class |-> <<"L", "A", ";">>, name |-> <<"f">>, type |-> <<"I">>],
       [class |-> <<"L", "A", ";">>, name |-> <<"g">>, type |-> <<"L", "j", "a", "v", "a", "/", "l", "a", "n", "g", "/", "S", "t", "r", "i", "n", "g", ";">>],
       [class |-> <<"L", "B", ";">>, name |-> <<"f">>, type |-> <<"I">>],
       [class |-> <<"L", "a", "n", "d", "r", "o", "i", "d", "/", "o", "s", "/", "B", "u", "i", "l", "d", "$", "V", "E", "R", "S", "I", "O", "N", ";">>, name |-> <<"S", "D", "K", "_", "I", "N", "T">>, type |-> <<"I">>],
       [class |-> <<"L", "j", "a", "v", "a", "/", "l", "a", "n", "g", "/", "I", "n", "t", "e", "g", "e", "r", ";">>, name |-> <<"T", "Y", "P", "E">>,
        type |-> <<"L", "j", "a", "v", "a", "/", "l", "a", "n", "g", "/", "C", "l", "a", "s", "s", ";">>] >>
FieldOf(field_idx) == << FieldRefs[field_idx].class, FieldRefs[field_idx].name >>

\* A step that reads or writes the static-field store.
StoreStep(newpc, newregs, newobjs, newg, newlog) ==
    /\ pc' = newpc
    /\ registers' = newregs
    /\ storeObjs' = newobjs
    /\ globalStore' = newg
    /\ field_log' = newlog
    /\ last' = Hist(FALSE)
    /\ UNCHANGED <<bytecode, finished, last_result, heap, hook, class_loader, mock_config>>
    /\ UNCHANGED <<program, stack, ev, clinitRuns, calls, phase, results,
                   call_sites, slicerVars>>

\* 0x60-0x66 sget vAA, field@BBBB and its variants, which are all this
\* handler: the framework table first, then the global store, which
\* get_static_field_store() makes if there is none.
execute_sget ==
    /\ Fetches(96..102, 1)
    /\ LET reg_dest == PyIndex(bytecode, pc + 1)
           trace_str == TraceStr(trace_map, pc)
           mock_val == sget_mock(trace_str)
           s == GetStaticFieldStore(storeObjs, globalStore)
       IN  IF mock_val.hit
             THEN StoreStep((pc + 1) + 3, RegSet(registers, reg_dest, mock_val.val),
                            storeObjs, globalStore, field_log)
           ELSE IF Contains(trace_str, Arrow) /\ ~FieldKeyOk(trace_str)
             THEN /\ last' = [Hist(FALSE) EXCEPT !.err = TRUE]
                  /\ pc' = pc + 1
                  /\ storeObjs' = s.objs
                  /\ globalStore' = s.g
                  /\ UNCHANGED <<bytecode, registers, finished, last_result, objVars>>
                  /\ UNCHANGED <<program, stack, ev, clinitRuns, calls, phase, results,
                                 call_sites, slicerVars>>
           ELSE StoreStep((pc + 1) + 3,
                          RegSet(registers, reg_dest,
                                 get_by_idx(s.objs[s.g], trace_str, IntW(IntZero))),
                          s.objs, s.g, field_log)

\* 0x67-0x6d sput vAA, field@BBBB and its variants, which are all this
\* handler.  field_log records the value under the field the index names.
execute_sput ==
    /\ Fetches(103..109, 1)
    /\ LET reg_src == PyIndex(bytecode, pc + 1)
           field_idx == read_u16(bytecode, pc + 2)
           trace_str == TraceStr(trace_map, pc)
           s == GetStaticFieldStore(storeObjs, globalStore)
       IN  IF ~RegOk(registers, reg_src) THEN HandlerRaises(pc + 1, registers)
           ELSE IF Contains(trace_str, Arrow) /\ ~FieldKeyOk(trace_str)
             THEN /\ last' = [Hist(FALSE) EXCEPT !.err = TRUE]
                  /\ pc' = pc + 1
                  /\ storeObjs' = s.objs
                  /\ globalStore' = s.g
                  /\ UNCHANGED <<bytecode, registers, finished, last_result, objVars>>
                  /\ UNCHANGED <<program, stack, ev, clinitRuns, calls, phase, results,
                                 call_sites, slicerVars>>
           ELSE LET val == registers[reg_src + 1]
                IN  StoreStep((pc + 1) + 3, registers,
                              [s.objs EXCEPT ![s.g] = set_by_idx(@, val, trace_str, phase)],
                              s.g,
                              IF field_idx \in 1..Len(FieldRefs)
                                THEN (FieldOf(field_idx) :> val) @@ field_log
                                ELSE field_log)

---------------------------------------------------------------------------
(* One DalvikVM over arrays, fields and wide values (specification         *)
(* SpecData).  The method is one or two instructions and a return-void,    *)
(* the register list has three registers: v0 is the destination or the     *)
(* value stored, v1 the array or object, v2 the index or size.             *)

I51l(op, aa, v) == << op, aa >> \o LE(v, 8)

\* fill-array-data-payload: ident 0x0300, element width, element count, and
\* two elements, the first with every byte 0x81.
Payload(ident, w) ==
    LE(ident, 2) \o LE(w, 2) \o LE(2, 4) \o [k \in 1..w |-> 129] \o LE(2, w)

WideInsns ==
    { I21(22, 0, -2), I31(23, 0, 70000), I51l(24, 0, 5), I21(25, 0, 1),
      I12x(4, 0, 1), I12x(4, 1, 0), I12x(4, 0, 2), I12x(4, 0, 3),
      I21(5, 0, 1), I32x(6, 0, 1), I32x(6, 256, 0),
      I11x(11, 0), I23x(155, 0, 0, 2), I12x(191, 0, 2) }
      \cup { I12x(op, 0, 2) : op \in {125, 126, 129, 131, 134} }
      \cup { I22s(op, 0, 1, f) : op \in {82, 83}, f \in {0, 1} }
      \cup { I21(op, 0, 0) : op \in {96, 97} }

ArrayInsns ==
    { I23x(op, 0, 1, 2) : op \in 68..81 } \cup { I22s(35, 1, 2, 0), I23x(68, 0, 3, 2) }

\* aput and the aget of the matching variant, on the same array and index.
PutGet == { I23x(op + 7, 0, 1, 2) \o I23x(op, 0, 1, 2) : op \in 68..74 }

\* new-array v1, v2; fill-array-data v1, +4; return-void; the payload.
NewFill ==
    { I22s(35, 1, 2, 0) \o I31(38, 1, 4) \o I10x(14) \o Payload(768, w) : w \in {1, 2, 4, 8} }
      \cup { I22s(35, 1, 2, 0) \o I31(38, 1, 4) \o I10x(14) \o Payload(256, 4),
             I22s(35, 1, 2, 0) \o I31(38, 1, 4) \o I10x(14) \o SubSeq(Payload(768, 1), 1, 9),
             I22s(35, 1, 2, 0) \o I31(38, 1, 4) \o I10x(14),
             I22s(35, 1, 2, 0) \o I31(38, 3, 4) \o I10x(14),
             I22s(35, 1, 2, 0) \o I23x(68, 0, 1, 2) }

DataMethods ==
    { i \o I10x(14) : i \in WideInsns \cup ArrayInsns \cup PutGet } \cup NewFill

\* A long that does not fit 32 bits.
WideValue == IntAdd(IntShl(IntOne, 40), IntOne)

\* An array of two ints and an object with one field, made earlier.
InitHeap ==
    << [DalvikArray(0, 2) EXCEPT !.data = << IntW(PyInt(5)), IntW(PyInt(6)) >>],
       [DalvikObject("LA;") EXCEPT !.fields = (0 :> IntW(WideValue))] >>

DataValues(r) ==
    CASE r = 1 -> { Null, IntW(PyInt(7)), IntW(WideValue), RefV(2), FloatW(PyInt(3)) }
      [] r = 2 -> { ArrV(1), RefV(2), Null, IntW(PyInt(1)) }
      [] OTHER -> { IntW(PyInt(-1)), IntW(IntZero), IntW(IntOne), IntW(PyInt(2)), Null }

InitData ==
    /\ bytecode \in DataMethods
    /\ pc = 0
    /\ registers \in { << a, b, c >> :
                          a \in DataValues(1), b \in DataValues(2), c \in DataValues(3) }
    /\ finished = FALSE
    /\ last_result \in { NoResult, Boxed(IntW(WideValue)) }
    /\ last = [p |-> 0, op |-> -1, regs |-> << >>, taken |-> FALSE, err |-> FALSE,
               res |-> NoResult]
    /\ LoaderIdle
    /\ SlicerIdle
    /\ heap = InitHeap
    /\ hook = "none"
    /\ class_loader = "none"
    /\ MockIdle

NextData ==
    \/ execute_const_wide_16 \/ execute_const_wide_32 \/ execute_const_wide
    \/ execute_const_wide_high16
    \/ execute_move_wide \/ execute_move_wide_from16 \/ execute_move_wide_16
    \/ execute_move_result_wide \/ execute_unary_wide
    \/ arith_long_23x \/ arith_long_2addr
    \/ execute_iget \/ execute_sget
    \/ execute_new_array \/ execute_fill_array_data \/ execute_aget \/ execute_aput
    \/ execute_return_void

SpecData == InitData /\ [][NextData]_vars

---------------------------------------------------------------------------
(* Properties of SpecData.                                                 *)

\* The opcodes that write a wide value, of those SpecData runs.
WideOpcodes ==
    {22, 23, 24, 25, 4, 5, 6, 11, 125, 126, 129, 131, 134, 69, 83, 97}
      \cup (155..165) \cup (187..197)

\* The register vN the last wide instruction wrote, as its handler decodes it.
WideDest ==
    CASE last.op \in {4, 125, 126, 129, 131, 134, 83} \cup (187..197) ->
           ByteAt(last.p + 1) % 16
      [] last.op = 6 -> U16At(last.p + 1)
      [] OTHER -> ByteAt(last.p + 1)

\* The source register of the last move-wide.
WideSrc ==
    CASE last.op = 4 -> ByteAt(last.p + 1) \div 16
      [] last.op = 5 -> U16At(last.p + 2)
      [] OTHER -> U16At(last.p + 3)

\* The last step wrote a wide value; for a move-wide, from a pair whose
\* second register held the placeholder.
WideDone ==
    /\ WholeInsn
    /\ last.op \in WideOpcodes
    /\ last.op \in {4, 5, 6} =>
         /\ WideSrc + 1 < Len(last.regs)
         /\ last.regs[WideSrc + 2] = Null
         /\ WideDest + 1 # WideSrc

\* C27: after an opcode that writes a wide value into the pair (vN, vN+1),
\* the const-wide and move-wide forms, move-result-wide, long arithmetic,
\* neg-long, not-long, the conversions to long and double, aget-wide,
\* iget-wide and sget-wide, register vN+1 holds the continuation placeholder
\* RegisterValue(None) and not the value an earlier instruction left there.
C27_WideHighSlotIsPlaceholder ==
    WideDone => /\ WideDest + 1 < Len(registers)
                /\ registers[WideDest + 2] = Null

\* The array register, index register and first register of a 23x array
\* instruction at offset p.
ArrayAt(regs, p) == regs[ByteAt(p + 2) + 1]
IndexAt(regs, p) == get_py_int(regs, ByteAt(p + 3))

\* An aget or aput is about to run on an array with an index outside
\* [0, size).
OutOfBoundsAccess ==
    /\ Fetches(68..81, 3)
    /\ RegOk(registers, ByteAt(pc + 2))
    /\ IsArray(ArrayAt(registers, pc))
    /\ ~InBounds(IndexAt(registers, pc), heap[ArrayAt(registers, pc).i])

\* C28: an aget or aput of any variant with an index outside [0, size)
\* leaves every array as it is, size and elements, and allocates nothing;
\* the aget writes 0 to its destination register; pc advances by the
\* instruction's length, 4, as on the in-range path, and nothing is raised.
C28_OutOfBoundsIgnored ==
    [][OutOfBoundsAccess =>
         /\ heap' = heap
         /\ storeObjs' = storeObjs
         /\ pc' = pc + 4
         /\ ~last'.err
         /\ Opcode \in 68..74 => registers'[ByteAt(pc + 1) + 1] = IntW(IntZero)
         /\ Opcode \in 75..81 => registers' = registers]_vars

\* An aput with index -1 or index size has run.
C28_Witness ==
    /\ WholeInsn
    /\ last.op \in 75..81
    /\ IsArray(ArrayAt(last.regs, last.p))
    /\ LET arr == heap[ArrayAt(last.regs, last.p).i]
       IN  \/ IndexAt(last.regs, last.p) = PyInt(-1)
           \/ IndexAt(last.regs, last.p) = PyInt(arr.size)
    /\ last.regs[ByteAt(last.p + 1) + 1] = IntW(PyInt(7))

\* The method's second instruction, an aget, has run after the aput of the
\* matching variant on the same array register and index register, and the
\* index is in range.
PutGetDone ==
    /\ WholeInsn
    /\ last.p = 4
    /\ last.op \in 68..74
    /\ ByteAt(0) = last.op + 7
    /\ ByteAt(2) = ByteAt(6) /\ ByteAt(3) = ByteAt(7)
    /\ IsArray(ArrayAt(last.regs, 4))
    /\ InBounds(IndexAt(last.regs, 4), heap[ArrayAt(last.regs, 4).i])

\* C29: when an aput variant has stored the value x of its register at an
\* index in range, the aget of the matching variant at that index yields x,
\* for aput-object the same reference, and the elements at the other
\* indices are as they were.
C29_PutThenGet ==
    PutGetDone =>
      LET a == ArrayAt(last.regs, 4).i
          i == Small(IndexAt(last.regs, 4)) + 1
      IN  /\ registers[ByteAt(5) + 1] = last.regs[ByteAt(1) + 1]
          /\ \A j \in DOMAIN heap[a].data : j # i => heap[a].data[j] = InitHeap[a].data[j]

\* The method's second instruction, a fill-array-data, has run on the array
\* its first instruction, a new-array, made, with a payload of identifier
\* 0x0300, width 1, 2, 4 or 8 and no fewer elements than the array.
FillPayload == 4 + S32At(6) * 2
NewFillDone ==
    /\ WholeInsn
    /\ last.p = 4
    /\ last.op = 38
    /\ ByteAt(0) = 35
    /\ ByteAt(1) % 16 = ByteAt(5)
    /\ IsArray(registers[ByteAt(5) + 1])
    /\ FillPayload + 8 <= Len(bytecode)
    /\ U16At(FillPayload) = 768
    /\ U16At(FillPayload + 2) \in {1, 2, 4, 8}
    /\ U16At(FillPayload + 4) >= heap[registers[ByteAt(5) + 1].i].size

\* C30: after new-array and fill-array-data with such a payload, element i
\* of the array is the i-th little-endian integer of w bytes of the payload
\* (read as a signed or as an unsigned integer), for every i below the
\* array's size.
C30_FillArrayData ==
    NewFillDone =>
      LET arr == heap[registers[ByteAt(5) + 1].i]
          w == U16At(FillPayload + 2)
          el(i) == PySlice(bytecode, FillPayload + 8 + i * w, FillPayload + 8 + i * w + w)
      IN  \A i \in 0..(arr.size - 1) :
             \/ arr.data[i + 1] = IntW(IntFromBytes(el(i), TRUE))
             \/ arr.data[i + 1] = IntW(IntFromBytes(el(i), FALSE))

---------------------------------------------------------------------------
(* opcodes/invoke.py: the hook stages of the invoke handlers.  vm.trace_map *)
(* is the variable trace_map, from the pc of an instruction to its text;    *)
(* vm.hook and vm.class_loader are the variables hook and class_loader.    *)
(* The vm has no method_hooks attribute and no method_resolver.            *)

\* An instance attribute of a DalvikObject: hasattr, getattr, setattr.
HasAttr(h, v, name) == v.t = "ref" /\ name \in DOMAIN h[v.i].attrs
GetAttr(h, v, name) == h[v.i].attrs[name]
SetAttr(h, addr, name, val) ==
    [h EXCEPT ![addr].attrs = (name :> val) @@ h[addr].attrs]

\* What a hook stage hands back: hit tells whether the stage took the call,
\* some whether its value is not None, heap is the heap it leaves.
Miss(h) == [hit |-> FALSE, some |-> FALSE, val |-> Null, heap |-> h]
Hit(v, h) == [hit |-> TRUE, some |-> TRUE, val |-> v, heap |-> h]
HitNone(h) == [hit |-> TRUE, some |-> FALSE, val |-> Null, heap |-> h]

\* A new DalvikObject of class cn with the attributes at.
NewObject(h, cn, at) ==
    Hit(RefV(Len(h) + 1), Append(h, [DalvikObject(cn) EXCEPT !.attrs = at]))

\* get_android_virtual_hook(trace_str) and the call of the hook it finds,
\* for the entries "Context;->getPackageName" and "Throwable;->getCause"
\* of ANDROID_VIRTUAL_HOOKS.
android_virtual_hook(h, args, trace_str) ==
    IF Contains(trace_str, <<"C", "o", "n", "t", "e", "x", "t", ";", "-", ">", "g", "e", "t", "P", "a", "c", "k", "a", "g", "e", "N", "a", "m", "e">>)
      THEN NewObject(h, "Ljava/lang/String;",
                     "internal_value" :> PyStr(<<"c", "o", "m", ".", "f", "a", "t", "a", "l", "s", "e", "c", ".", "a", "p", "p">>))
    ELSE IF Contains(trace_str, <<"T", "h", "r", "o", "w", "a", "b", "l", "e", ";", "-", ">", "g", "e", "t", "C", "a", "u", "s", "e">>) THEN HitNone(h)
    ELSE Miss(h)

\* get_android_static_hook(trace_str) and the call of the hook it finds:
\* "Class;->forName" is the one entry of ANDROID_STATIC_HOOKS.
android_static_hook(h, args, trace_str) ==
    IF Contains(trace_str, <<"C", "l", "a", "s", "s", ";", "-", ">", "f", "o", "r", "N", "a", "m", "e">>)
      THEN LET name_arg == IF args = << >> THEN Null ELSE args[1]
               named == IF HasAttr(h, name_arg, "internal_value")
                          THEN "_class_name" :> GetAttr(h, name_arg, "internal_value")
                        ELSE IF name_arg.t = "pystr" THEN "_class_name" :> name_arg
                        ELSE << >>
           IN  NewObject(h, "Ljava/lang/Class;", named @@ ("_mock_type" :> PyStr(<<"C", "l", "a", "s", "s">>)))
    ELSE Miss(h)

\* chr(n) for the code points of a .. z; the other code points are not
\* told apart.
PyChr(n) ==
    IF n \in 97..122 THEN << <<"a", "b", "c", "d", "e", "f", "g", "h", "i", "j", "k", "l", "m", "n", "o", "p", "q", "r", "s", "t", "u", "v", "w", "x", "y", "z">>[n - 96] >> ELSE <<"?">>

\* The characters of a class name.
ClassChars(cn) ==
    CASE cn = "Ljava/lang/String;" -> <<"L", "j", "a", "v", "a", "/", "l", "a", "n", "g", "/", "S", "t", "r", "i", "n", "g", ";">>
      [] cn = "Ljava/lang/StringBuilder;" -> <<"L", "j", "a", "v", "a", "/", "l", "a", "n", "g", "/", "S", "t", "r", "i", "n", "g", "B", "u", "i", "l", "d", "e", "r", ";">>
      [] cn = "Ljava/lang/Class;" -> <<"L", "j", "a", "v", "a", "/", "l", "a", "n", "g", "/", "C", "l", "a", "s", "s", ";">>
      [] cn = "LA;" -> <<"L", "A", ";">>
      [] OTHER -> <<"<", "c", "l", "a", "s", "s", ">">>

\* str(x) of an internal value, an array or an object: DalvikObject.__repr__
\* and DalvikArray.__repr__.
PyStrOf(h, v) ==
    CASE v.t = "pystr" -> v.i
      [] v.t = "arr" -> <<"A", "r", "r", "a", "y", "[">> \o ToStr(h[v.i].size) \o <<"]">>
      [] v.t = "ref" ->
           IF "internal_value" \in DOMAIN h[v.i].attrs
             THEN ClassChars(h[v.i].class_name) \o <<"(", "'">>
                    \o h[v.i].attrs["internal_value"].i \o <<"'", ")">>
             ELSE <<"O", "b", "j", "e", "c", "t", "(">> \o ClassChars(h[v.i].class_name) \o <<")">>
      [] OTHER -> <<"N", "o", "n", "e">>

\* sb.internal_value += ..., by the type of the argument of append
builder_append(h, sb, arg) ==
    LET old == GetAttr(h, sb, "internal_value").i
        new == CASE arg.t = "int" -> old \o PyChr(Small(arg.i))
                 [] arg.t = "pystr" -> old \o arg.i
                 [] arg.t = "ref" /\ HasAttr(h, arg, "internal_value") ->
                      old \o PyStrOf(h, GetAttr(h, arg, "internal_value"))
                 [] arg.t = "null" -> old
                 [] OTHER -> old \o PyStrOf(h, arg)
    IN  SetAttr(h, sb.i, "internal_value", PyStr(new))

\* Variant: a toString that hands back the object it is called on.
builder_to_string_same(h, obj) == Hit(obj, h)

\* new_str = DalvikObject("Ljava/lang/String;"); new_str.internal_value =
\* obj.internal_value
builder_to_string(h, obj) ==
    NewObject(h, "Ljava/lang/String;",
              "internal_value" :> GetAttr(h, obj, "internal_value"))

\* _builtin_virtual_hooks, its branches for StringBuilder.append, toString,
\* PrintStream.println and String.length, in this order; the call has at
\* least one argument.  println returns None, and so do toString and
\* length of what is no string object.
builtin_virtual_hooks(h, args, trace_str) ==
    IF Contains(trace_str, <<"a", "p", "p", "e", "n", "d">>) /\ Contains(trace_str, <<"L", "j", "a", "v", "a", "/", "l", "a", "n", "g", "/", "S", "t", "r", "i", "n", "g", "B", "u", "i", "l", "d", "e", "r", ";">>)
      THEN LET sb == args[1]
               arg == IF Len(args) > 1 THEN args[2] ELSE Null
               g == IF HasAttr(h, sb, "internal_value") THEN builder_append(h, sb, arg) ELSE h
           IN  IF sb.t = "null" THEN HitNone(g) ELSE Hit(sb, g)
    ELSE IF Contains(trace_str, <<"t", "o", "S", "t", "r", "i", "n", "g">>)
      THEN IF HasAttr(h, args[1], "internal_value")
             THEN builder_to_string(h, args[1])
             ELSE Miss(h)
    ELSE IF Contains(trace_str, <<"p", "r", "i", "n", "t", "l", "n">>) /\ Contains(trace_str, <<"L", "j", "a", "v", "a", "/", "i", "o", "/", "P", "r", "i", "n", "t", "S", "t", "r", "e", "a", "m", ";">>)
      THEN Miss(h)
    ELSE IF Contains(trace_str, <<"l", "e", "n", "g", "t", "h">>) /\ Contains(trace_str, <<"L", "j", "a", "v", "a", "/", "l", "a", "n", "g", "/", "S", "t", "r", "i", "n", "g", ";">>)
      THEN IF HasAttr(h, args[1], "internal_value")
             THEN Hit(IntW(PyInt(Len(GetAttr(h, args[1], "internal_value").i))), h)
             ELSE Miss(h)
    ELSE Miss(h)

\* for i in range(length): if src_pos + i < len(src.data) and
\* dest_pos + i < len(dest.data): dest.data[dest_pos + i] = src.data[src_pos + i]
RECURSIVE ArrayCopy(_, _, _, _, _, _)
ArrayCopy(h, src, src_pos, dest, dest_pos, n) ==
    IF n <= 0 THEN h
    ELSE LET g == ArrayCopy(h, src, src_pos, dest, dest_pos, n - 1)
             i == n - 1
         IN  IF src_pos + i < Len(g[src].data) /\ dest_pos + i < Len(g[dest].data)
               THEN [g EXCEPT ![dest].data[dest_pos + i + 1] = g[src].data[src_pos + i + 1]]
               ELSE g

\* int(x) if x else 0, for an int or None
IntOrZero(v) == IF v.t = "int" THEN Small(v.i) ELSE 0

\* The value the hook of System.arraycopy returns for a void method.
VOID_HOOK_HANDLED == PyStr(<<"V", "O", "I", "D", "_", "H", "O", "O", "K", "_", "H", "A", "N", "D", "L", "E", "D">>)

\* ret_val == "VOID_HOOK_HANDLED"
IsVoidHookHandled(v) == v.t = "pystr" /\ v.i = VOID_HOOK_HANDLED.i

\* ret_val = "VOID_HOOK_HANDLED"
arraycopy_result == VOID_HOOK_HANDLED

\* _builtin_static_hooks, its branches for Math.abs and System.arraycopy;
\* the positions and the length of arraycopy are ints, not negative, or None.
builtin_static_hooks_by_trace(h, args, trace_str) ==
    IF Contains(trace_str, <<"M", "a", "t", "h", ";", "-", ">", "a", "b", "s">>)
      THEN IF args = << >> THEN Miss(h)
           ELSE IF args[1].t = "int" THEN Hit(IntW(IntAbs(args[1].i)), h)
           ELSE IF args[1].t = "float" THEN Hit(FloatW(IntAbs(args[1].i)), h)
           ELSE Hit(IntW(IntZero), h)
    ELSE IF Contains(trace_str, <<"S", "y", "s", "t", "e", "m", ";", "-", ">", "a", "r", "r", "a", "y", "c", "o", "p", "y">>)
      THEN IF Len(args) >= 5 /\ IsArray(args[1]) /\ IsArray(args[3])
             THEN Hit(arraycopy_result,
                      ArrayCopy(h, args[1].i, IntOrZero(args[2]), args[3].i,
                                IntOrZero(args[4]), IntOrZero(args[5])))
             ELSE Hit(arraycopy_result, h)
    ELSE Miss(h)

\* vm.hook(method_idx, args): a hook that answers every call with 7, or one
\* that declines every call with None.
user_hook(hk, method_idx, args) ==
    IF hk = "answers" THEN [some |-> TRUE, val |-> IntW(PyInt(7))]
    ELSE [some |-> FALSE, val |-> Null]

---------------------------------------------------------------------------
(* class_loader.py: the methods of the archive and their lookup.  A method *)
(* is what dx.get_methods() yields: class, name, descriptor, and a code    *)
(* item (has_code) with its bytes, its registers_size and the trace map    *)
(* build_trace makes of it.                                                *)

DexMethod(class_name, name, descriptor, has_code, code, regs_size, tm) ==
    [class |-> class_name, name |-> name, descriptor |-> descriptor, has_code |-> has_code,
     bytecode |-> code, regs_size |-> regs_size, trace_map |-> tm]

\* dx.get_methods(), in the order of the archive:
\*   LA;->f()I     const/4 v0, 1; return v0
\*   LA;->f(I)I    const/4 v0, 2; return v0
\*   LA;->t()I     a const/4 cut behind its opcode
\*   LA;->n()I     without code item
\*   LA;->w(I)I    const/4 v1, 5; return v1    (v1 holds the argument)
\*   LA;->c(I)I    invoke-static {v1}, LA;->w(I)I; move-result v0; return v0
\*   LB;-><clinit>()V   const/4 v0, 3; throw v0; sput v0, LB;->f I; return-void
\*   LB;->g(I)I    const/4 v0, 4; return v0
DexMethods ==
    << DexMethod(<<"L", "A", ";">>, <<"f">>, <<"(", ")", "I">>, TRUE, << 18, 16, 15, 0 >>, 1, << >>),
       DexMethod(<<"L", "A", ";">>, <<"f">>, <<"(", "I", ")", "I">>, TRUE, << 18, 32, 15, 0 >>, 1, << >>),
       DexMethod(<<"L", "A", ";">>, <<"t">>, <<"(", ")", "I">>, TRUE, << 18 >>, 1, << >>),
       DexMethod(<<"L", "A", ";">>, <<"n">>, <<"(", ")", "I">>, FALSE, << >>, 0, << >>),
       DexMethod(<<"L", "A", ";">>, <<"w">>, <<"(", "I", ")", "I">>, TRUE, << 18, 81, 15, 1 >>, 2, << >>),
       DexMethod(<<"L", "A", ";">>, <<"c">>, <<"(", "I", ")", "I">>, TRUE,
                 << 113, 16, 4, 0, 1, 0, 10, 0, 15, 0 >>, 2,
                 (0 :> <<"i", "n", "v", "o", "k", "e", "-", "s", "t", "a", "t", "i", "c", " ", "v", "1", ",", " ", "L", "A", ";", "-", ">", "w", "(", "I", ")", "I">>)),
       DexMethod(<<"L", "B", ";">>, <<"<", "c", "l", "i", "n", "i", "t", ">">>, <<"(", ")", "V">>, TRUE,
                 << 18, 48, 39, 0, 103, 0, 3, 0, 14, 0 >>, 1,
                 (4 :> <<"s", "p", "u", "t", " ", "v", "0", ",", " ", "L", "B", ";", "-", ">", "f", " ", "I">>)),
       DexMethod(<<"L", "B", ";">>, <<"g">>, <<"(", "I", ")", "I">>, TRUE, << 18, 64, 15, 0 >>, 1, << >>) >>

\* parser.methods: per method index the class and the name.  Index 0 and 1
\* are the two overloads of LA;->f.
ParserMethods ==
    << [class |-> <<"L", "A", ";">>, name |-> <<"f">>], [class |-> <<"L", "A", ";">>, name |-> <<"f">>],
       [class |-> <<"L", "A", ";">>, name |-> <<"t">>], [class |-> <<"L", "A", ";">>, name |-> <<"n">>],
       [class |-> <<"L", "A", ";">>, name |-> <<"w">>], [class |-> <<"L", "A", ";">>, name |-> <<"c">>],
       [class |-> <<"L", "B", ";">>, name |-> <<"g">>] >>

\* DexParser.get_method_name: "class->name", without the signature.
get_method_name(method_idx) ==
    IF method_idx >= Len(ParserMethods) THEN <<"m", "e", "t", "h", "o", "d", "_">> \o ToStr(method_idx)
    ELSE ParserMethods[method_idx + 1].class \o Arrow \o ParserMethods[method_idx + 1].name

\* The first index of a sequence of records that satisfies a test, 0 = None.
FirstMethod(found) == IF found = {} THEN 0 ELSE CHOOSE i \in found : \A j \in found : i <= j

\* LazyClassLoader.find_method: the first method of that class and name.
find_method(class_name, method_name) ==
    FirstMethod({ i \in 1..Len(DexMethods) :
                    DexMethods[i].class = class_name /\ DexMethods[i].name = method_name })

\* s.replace(' ', '')
NoSpaces(s) == SelectSeq(s, LAMBDA ch : ch # " ")

\* Variant: the signature is not compared.
find_method_any_sig(class_name, method_name, expected_sig) ==
    find_method(class_name, method_name)

\* LazyClassLoader.find_method_with_sig: the first method of that class and
\* name whose descriptor is expected_sig, spaces removed; << >> is None.
find_method_with_sig(class_name, method_name, expected_sig) ==
    FirstMethod({ i \in 1..Len(DexMethods) :
                    /\ DexMethods[i].class = class_name
                    /\ DexMethods[i].name = method_name
                    /\ expected_sig # << >> =>
                          NoSpaces(DexMethods[i].descriptor) = NoSpaces(expected_sig) })

\* LazyClassLoader.find_method_by_idx
find_method_by_idx(method_idx) ==
    LET method_full_name == get_method_name(method_idx)
        parts == SplitOn(method_full_name, Arrow)
    IN  IF ~Contains(method_full_name, Arrow) THEN 0
        ELSE find_method(parts[1], SplitOn(parts[2], <<"(">>)[1])

\* \w for the characters the texts are made of
WordChars ==
    LET w == <<"a", "b", "c", "d", "e", "f", "g", "h", "i", "j", "k", "l", "m", "n", "o", "p", "q", "r", "s", "t", "u", "v", "w", "x", "y", "z", "A", "B", "C", "D", "E", "F", "G", "H", "I", "J", "K", "L", "M", "N", "O", "P", "Q", "R", "S", "T", "U", "V", "W", "X", "Y", "Z", "0", "1", "2", "3", "4", "5", "6", "7", "8", "9", "_">>
    IN  { w[i] : i \in 1..Len(w) }

\* The first index from `from` on whose character is in chars, 0 when none.
NextIndex(s, from, chars) ==
    LET c == { i \in from..Len(s) : s[i] \in chars }
    IN  IF c = {} THEN 0 ELSE CHOOSE i \in c : \A j \in c : i <= j

\* The end of the longest run from `from` on of characters that are in
\* chars (inside) or are not in chars: from - 1 when the run is empty.
RunEnd(s, from, chars, inside) ==
    LET c == { e \in (from - 1)..Len(s) : \A x \in from..e : (s[x] \in chars) = inside }
    IN  CHOOSE e \in c : \A j \in c : j <= e

\* L[^;]+;->[\w]+\([^)]*\)[^\s,]* matched from the closing parenthesis on:
\* where the match ends, 0 when there is none.
MatchClose(s, close) ==
    IF close = 0 THEN 0 ELSE RunEnd(s, close + 1, {" ", ","}, FALSE)

\* ... from the method name on, which ends at name_end
MatchName(s, semi, name_end) ==
    IF name_end < semi + 3 \/ name_end + 1 > Len(s) THEN 0
    ELSE IF s[name_end + 1] # "(" THEN 0
    ELSE MatchClose(s, NextIndex(s, name_end + 2, {")"}))

\* ... from the first semicolon behind i on
MatchSemi(s, i, semi) ==
    IF semi < i + 2 THEN 0
    ELSE IF SubSeq(s, semi + 1, semi + 2) # Arrow THEN 0
    ELSE MatchName(s, semi, RunEnd(s, semi + 3, WordChars, TRUE))

\* Where a match that starts at i ends, 0 when there is none.
MatchEnd(s, i) ==
    IF s[i] # "L" THEN 0 ELSE MatchSemi(s, i, NextIndex(s, i + 1, {";"}))

\* The match that starts at i.
MatchFrom(s, i) == SubSeq(s, i, MatchEnd(s, i))

\* The match that starts at the least index of starts, << >> without one.
LeftmostMatch(s, starts) ==
    IF starts = {} THEN << >>
    ELSE MatchFrom(s, CHOOSE k \in starts : \A j \in starts : k <= j)

\* re.search(...).group(1): the leftmost match, << >> when there is none.
search_method_ref(s) == LeftmostMatch(s, { i \in 1..Len(s) : MatchEnd(s, i) # 0 })

\* The first part of parts whose index is in c, its trailing commas removed.
FirstPart(parts, c) ==
    IF c = {} THEN << >> ELSE RStrip(parts[CHOOSE k \in c : \A j \in c : k <= j], ",")

\* The parts that start with L and hold "->".
RefParts(parts) ==
    { k \in 1..Len(parts) : StartsWith(parts[k], <<"L">>) /\ Contains(parts[k], Arrow) }

\* The fallback of find_method_by_trace: the first blank-separated part
\* that starts with L and holds "->", its trailing commas removed.
first_ref_part(trace_str) == FirstPart(Split(trace_str), RefParts(Split(trace_str)))

\* "(" + method_with_sig.split("(", 1)[1], << >> (None) without "("
FullSig(method_with_sig, open) ==
    IF open = 0 THEN << >> ELSE SubSeq(method_with_sig, open, Len(method_with_sig))

\* find_method_by_trace from method_part.split("->") on
FindByHalves(class_name, method_with_sig) ==
    find_method_with_sig(class_name, SplitOn(method_with_sig, <<"(">>)[1],
                         FullSig(method_with_sig, NextIndex(method_with_sig, 1, {"("})))

\* find_method_by_trace from the regular expression's match on
FindByMatch(found, trace_str) ==
    IF found # << >> THEN FindByHalves(SplitOn(found, Arrow)[1], SplitOn(found, Arrow)[2])
    ELSE IF first_ref_part(trace_str) = << >> THEN 0
    ELSE FindByHalves(SplitOn(first_ref_part(trace_str), Arrow)[1],
                      SplitOn(first_ref_part(trace_str), Arrow)[2])

\* LazyClassLoader.find_method_by_trace
find_method_by_trace(trace_str) ==
    IF trace_str = << >> \/ ~Contains(trace_str, Arrow) THEN 0
    ELSE FindByMatch(search_method_ref(trace_str), trace_str)

\* What execute_method is asked to run: the marker an invoke handler holds
\* while the callee's interpreter runs.
CallOf(method) == [t |-> "call", i |-> method, c |-> ""]

\* The first lines of resolve_and_execute: the method by the trace text when
\* there is one, else by the index; 0 is None.
resolve_method(method_idx, trace_str) ==
    IF trace_str # << >> /\ find_method_by_trace(trace_str) # 0
      THEN find_method_by_trace(trace_str)
      ELSE find_method_by_idx(method_idx)

\* execute_method, as resolve_and_execute sees it: None for no method (0)
\* and for a method without code item, else the method runs.
execute_method_of(method) ==
    IF method = 0 THEN [some |-> FALSE, val |-> Null]
    ELSE IF DexMethods[method].has_code THEN [some |-> TRUE, val |-> CallOf(method)]
    ELSE [some |-> FALSE, val |-> Null]

\* The method indices and texts of the methods the archive of the class
\* loader holds: LA;->f()I and LA;->g(I)I, which return 9.
AppMethodIdx == {1, 2}
NamesAppMethod(trace_str) ==
    Contains(trace_str, <<"L", "A", ";", "-", ">", "f", "(", ")", "I">>) \/ Contains(trace_str, <<"L", "A", ";", "-", ">", "g", "(", "I", ")", "I">>)

\* vm.class_loader.resolve_and_execute(method_idx, args, vm, trace_str):
\* find_method_by_trace when there is a text, else find_method_by_idx, then
\* execute_method; None when no method is found.  The loader "archive"
\* stands for a loader whose methods LA;->f()I and LA;->g(I)I return 9;
\* the loader "dex" is a LazyClassLoader over DexMethods, whose
\* execute_method returns None for a method without code item and else
\* runs the method in an interpreter of its own (CallOf).
resolve_and_execute(cl, method_idx, trace_str) ==
    IF cl = "archive"
       /\ IF trace_str # << >> /\ NamesAppMethod(trace_str) THEN TRUE
          ELSE method_idx \in AppMethodIdx
      THEN [some |-> TRUE, val |-> IntW(PyInt(9))]
    ELSE IF cl = "dex" THEN execute_method_of(resolve_method(method_idx, trace_str))
    ELSE [some |-> FALSE, val |-> Null]

\* What an invoke handler leaves: vm.last_result and the heap.
Outcome(res, h) == [res |-> res, heap |-> h]
\* RegisterValue(ret_val) if ret_val is not None else RegisterValue(None)
Wrapped(r) == IF r.some THEN Boxed(r.val) ELSE Boxed(Null)

\* execute_invoke_virtual, also invoke-super and invoke-interface
invoke_virtual(h, res, hk, cl, method_idx, args, trace_str) ==
    LET android == android_virtual_hook(h, args, trace_str)
        builtin == builtin_virtual_hooks(h, args, trace_str)
        should_try_resolve ==
            /\ ~Contains(trace_str, <<"S", "t", "r", "i", "n", "g", "B", "u", "i", "l", "d", "e", "r">>)
            /\ ~Contains(trace_str, <<"P", "r", "i", "n", "t", "S", "t", "r", "e", "a", "m">>)
            /\ ~Contains(trace_str, <<"S", "y", "s", "t", "e", "m">>)
    IN  IF android.hit THEN Outcome(Wrapped(android), android.heap)
        ELSE IF ~builtin.some /\ cl # "none"
          THEN IF should_try_resolve /\ Contains(trace_str, <<"-", ">">>)
                 THEN Outcome(Wrapped(resolve_and_execute(cl, method_idx, << >>)), builtin.heap)
                 ELSE Outcome(Boxed(Null), builtin.heap)
        ELSE Outcome(Wrapped(builtin), builtin.heap)

\* execute_invoke_direct: StringBuilder.<init> empties the builder;
\* vm.last_result is not assigned.
invoke_direct(h, res, hk, cl, method_idx, args, trace_str) ==
    IF Contains(trace_str, <<"L", "j", "a", "v", "a", "/", "l", "a", "n", "g", "/", "S", "t", "r", "i", "n", "g", "B", "u", "i", "l", "d", "e", "r", ";", "-", ">", "<", "i", "n", "i", "t", ">">>) /\ args[1].t = "ref"
      THEN Outcome(res, SetAttr(h, args[1].i, "internal_value", PyStr(<< >>)))
      ELSE Outcome(res, h)

\* execute_invoke_static
invoke_static(h, res, hk, cl, method_idx, args, trace_str) ==
    LET builtin == builtin_static_hooks_by_trace(h, args, trace_str)
        android == android_static_hook(h, args, trace_str)
        result == user_hook(hk, method_idx, args)
    IN  IF builtin.some THEN Outcome(Boxed(builtin.val), builtin.heap)
        ELSE IF android.hit THEN Outcome(Wrapped(android), android.heap)
        ELSE IF hk # "none" /\ result.some THEN Outcome(Boxed(result.val), h)
        ELSE IF cl # "none"
          THEN Outcome(Wrapped(resolve_and_execute(cl, method_idx, trace_str)), h)
        ELSE Outcome(Boxed(Null), h)

\* execute_invoke_virtual_range, also the range forms of invoke-super,
\* invoke-direct and invoke-interface
invoke_virtual_range(h, res, hk, cl, method_idx, args, trace_str) ==
    LET builtin == builtin_virtual_hooks(h, args, trace_str)
    IN  IF ~builtin.some /\ cl # "none"
          THEN Outcome(Wrapped(resolve_and_execute(cl, method_idx, trace_str)), builtin.heap)
          ELSE Outcome(Wrapped(builtin), builtin.heap)

\* execute_invoke_static_range
invoke_static_range(h, res, hk, cl, method_idx, args, trace_str) ==
    LET builtin == builtin_static_hooks_by_trace(h, args, trace_str)
    IN  IF builtin.some
          THEN Outcome(IF IsVoidHookHandled(builtin.val) THEN Boxed(Null)
                       ELSE Boxed(builtin.val), builtin.heap)
        ELSE IF cl # "none"
          THEN Outcome(Wrapped(resolve_and_execute(cl, method_idx, trace_str)), h)
        ELSE Outcome(Boxed(Null), h)

\* The handler of an invoke opcode, 0x6e-0x72 and 0x74-0x78.
InvokeHandler(op, h, res, hk, cl, method_idx, args, trace_str) ==
    CASE op \in {110, 111, 114} -> invoke_virtual(h, res, hk, cl, method_idx, args, trace_str)
      [] op = 112 -> invoke_direct(h, res, hk, cl, method_idx, args, trace_str)
      [] op = 113 -> invoke_static(h, res, hk, cl, method_idx, args, trace_str)
      [] op = 119 -> invoke_static_range(h, res, hk, cl, method_idx, args, trace_str)
      [] OTHER -> invoke_virtual_range(h, res, hk, cl, method_idx, args, trace_str)

\* _decode_invoke_range_args (3rc): the registers start_reg .. start_reg +
\* arg_count - 1; vpc is the handler's pc.
decode_invoke_range_regs(bc, vpc) ==
    LET arg_count == PyIndex(bc, vpc)
        start_reg == PyIndex(bc, vpc + 3) + 256 * PyIndex(bc, vpc + 4)
    IN  [i \in 1..arg_count |-> start_reg + (i - 1)]

\* The argument registers of the invoke at pc.
InvokeRegs ==
    IF Opcode \in 110..114 THEN decode_invoke_regs(bytecode, pc + 1)
    ELSE decode_invoke_range_regs(bytecode, pc + 1)

\* An invoke handler has run: last_result and the heap are what it leaves,
\* pc is 5 bytes behind the handler's pc.
InvokeStep(o) ==
    /\ pc' = (pc + 1) + 5
    /\ last_result' = o.res
    /\ heap' = o.heap
    /\ last' = Hist(FALSE)
    /\ UNCHANGED <<bytecode, registers, finished, hook, class_loader, mockVars>>
    /\ UNCHANGED <<program, storeObjs, globalStore, stack, ev, clinitRuns, calls,
                   phase, results, call_sites, slicerVars>>

---------------------------------------------------------------------------
(* class_loader.py: execute_method and _run_clinit as the invoke handlers  *)
(* of a DalvikVM reach them.  The variables bytecode .. last_result and    *)
(* trace_map are the interpreter that runs; stack holds the interpreters   *)
(* that wait in an invoke handler, outermost first; phase.ph names the     *)
(* loop that drives the running interpreter: "clinit" the loop of          *)
(* _run_clinit, "method" the loop of execute_method, anything else the     *)
(* loop of emulate_with_args.  The methods of DexMethods are straight      *)
(* code of at most four instructions, so the step caps of the loops (500,  *)
(* 5000, 10000) are never reached and are not counted.  No class of        *)
(* DexMethods declares an initial field value, so                          *)
(* _load_static_field_values stores nothing.                               *)

\* What the variables other than the interpreter, the stack and the store
\* are: left alone by a call and by a return.
callRest == <<program, clinitRuns, calls, results, call_sites, caller, requested, stage,
              site_candidates, call_pc, arg_regs, dependency_pcs, slice_vm, hook,
              class_loader, mockVars>>

\* History record of a call: what happened last at the boundary between
\* two interpreters.  method is the index into DexMethods, val the value
\* handed back, regs the registers of the callee when its loop ended, args
\* the arguments it was started with.
CallEvent(kind, method, val, regs, args) ==
    [kind |-> kind, method |-> method, val |-> val, regs |-> regs, args |-> args]

\* The interpreter that waits in its invoke handler for method, or for the
\* <clinit> that runs before method.
Suspended(method, args, arg_regs_) ==
    [kind |-> phase.ph, bytecode |-> bytecode, pc |-> pc, registers |-> registers,
     finished |-> finished, last_result |-> last_result, trace_map |-> trace_map,
     last |-> Hist(FALSE), method |-> method, args |-> args, arg_regs |-> arg_regs_]

\* DalvikVM(bytecode, strings, regs_size) for method m, its trace map set
\* and args loaded at the end of the register frame.
StartVM(m, args) ==
    /\ bytecode' = DexMethods[m].bytecode
    /\ trace_map' = DexMethods[m].trace_map
    /\ pc' = 0
    /\ registers' = LoadArguments(DexMethods[m].regs_size, args)
    /\ finished' = FALSE
    /\ last_result' = NoResult
    /\ last' = [p |-> 0, op |-> -1, regs |-> << >>, taken |-> FALSE, err |-> FALSE,
                res |-> NoResult]

\* execute_method for a method with bytecode, up to the head of its loop or
\* of the loop of _run_clinit: the class is marked at once when it has no
\* <clinit> with bytecode, else its <clinit> runs first.
EnterCallee(m, args, arg_regs_, newheap) ==
    LET s == GetStaticFieldStore(storeObjs, globalStore)
        class_name == DexMethods[m].class
        clinit == find_method(class_name, <<"<", "c", "l", "i", "n", "i", "t", ">">>)
        fresh == ~IsClassInitialized(s.objs[s.g], class_name)
        runs == fresh /\ clinit # 0 /\ DexMethods[clinit].has_code
    IN  /\ stack' = Append(stack, Suspended(m, args, arg_regs_))
        /\ globalStore' = s.g
        /\ storeObjs' = IF fresh /\ ~runs
                          THEN [s.objs EXCEPT
                                  ![s.g] = MarkClassInitialized(@, class_name, phase)]
                          ELSE s.objs
        /\ heap' = newheap
        /\ IF runs THEN StartVM(clinit, << >>) /\ phase' = Phase("clinit", 0)
                   ELSE StartVM(m, args) /\ phase' = Phase("method", 0)
        /\ ev' = CallEvent("call", m, Null, << >>, args)
        /\ UNCHANGED callRest

\* The loop of the running interpreter has ended: its condition is false,
\* or _run_clinit fetched return-void, or the opcode has no handler.
LoopEnded ==
    /\ ~last.err
    /\ IF pc >= Len(bytecode) THEN TRUE
       ELSE IF Opcode \in Unassigned THEN TRUE
       ELSE IF phase.ph = "clinit" THEN Opcode = 14
       ELSE finished

\* Variant: the caller's argument registers are the callee's tail
\* registers, as if the two interpreters shared the slots.
SharedRegisters(f, callee_regs) ==
    [r \in 1..Len(f.registers) |->
        LET at == { i \in 1..Len(f.arg_regs) : f.arg_regs[i] + 1 = r }
        IN  IF at = {} THEN f.registers[r]
            ELSE callee_regs[Len(callee_regs) - Len(f.args) + (CHOOSE i \in at : TRUE)]]

\* The caller's registers when the callee has returned.  Registers.__init__
\* makes a list of its own for every interpreter; execute_method puts the
\* caller's RegisterValue objects into the callee's list, and every handler
\* writes a register by putting another object into the list of its own
\* interpreter, never by assigning to the value of an object.
CallerRegisters(f, callee_regs) == f.registers

\* execute_method from the end of its loop on, and the invoke handler that
\* called it: result.value, or None without a result, becomes the caller's
\* last_result, and the caller's pc moves behind the invoke.
method_returns ==
    /\ stack # << >>
    /\ phase.ph = "method"
    /\ LoopEnded
    /\ LET f == stack[Len(stack)]
           ret_val == IF last_result.box THEN last_result.val ELSE Null
       IN  /\ bytecode' = f.bytecode
           /\ trace_map' = f.trace_map
           /\ pc' = (f.pc + 1) + 5
           /\ registers' = CallerRegisters(f, registers)
           /\ finished' = f.finished
           /\ last_result' = Boxed(ret_val)
           /\ last' = f.last
           /\ phase' = Phase(f.kind, 0)
           /\ stack' = SubSeq(stack, 1, Len(stack) - 1)
           /\ ev' = CallEvent("returned", f.method, ret_val, registers, f.args)
    /\ UNCHANGED <<storeObjs, globalStore, heap, callRest>>

\* _run_clinit from the end of its loop on, and execute_method up to the
\* head of its own loop: the class is marked and the method's interpreter
\* is made.
clinit_returns ==
    /\ stack # << >>
    /\ phase.ph = "clinit"
    /\ LoopEnded
    /\ LET f == stack[Len(stack)]
       IN  /\ storeObjs' = [storeObjs EXCEPT
                              ![globalStore] =
                                  MarkClassInitialized(@, DexMethods[f.method].class, phase)]
           /\ StartVM(f.method, f.args)
           /\ ev' = CallEvent("clinit", f.method, Null, registers, << >>)
    /\ phase' = Phase("method", 0)
    /\ UNCHANGED <<stack, globalStore, heap, callRest>>

\* IndexError leaves the step or the handler of a callee: neither
\* execute_method, _run_clinit, resolve_and_execute nor an invoke handler
\* catches it, so it leaves every interpreter up to the outermost, whose
\* invoke handler has not moved pc behind the invoke.
callee_raises ==
    /\ stack # << >>
    /\ Running
    /\ ~NoException
    /\ LET f == stack[1]
       IN  /\ bytecode' = f.bytecode
           /\ trace_map' = f.trace_map
           /\ pc' = f.pc + 1
           /\ registers' = f.registers
           /\ finished' = f.finished
           /\ last_result' = f.last_result
           /\ last' = [f.last EXCEPT !.err = TRUE]
           /\ phase' = Phase(f.kind, 0)
           /\ ev' = CallEvent("raised", stack[Len(stack)].method, Null, registers,
                              stack[Len(stack)].args)
    /\ stack' = << >>
    /\ UNCHANGED <<storeObjs, globalStore, heap, callRest>>

\* The handler holds the marker of a method to run.
IsCall(o) == o.res.box /\ o.res.val.t = "call"

\* An invoke handler from its class-loader call on.
InvokeDone(o, args, arg_regs_) ==
    IF IsCall(o) THEN EnterCallee(o.res.val.i, args, arg_regs_, o.heap) ELSE InvokeStep(o)

\* 0x6e-0x72 invoke-kind {vC, vD, vE, vF, vG}, meth@BBBB
execute_invoke ==
    /\ Fetches(110..114, 4)
    /\ LET regs == decode_invoke_regs(bytecode, pc + 1)
           args == [i \in 1..Len(regs) |-> registers[regs[i] + 1]]
           method_idx == decode_invoke_method_idx(bytecode, pc + 1)
       IN  /\ \A i \in 1..Len(regs) : RegOk(registers, regs[i])
           /\ InvokeDone(InvokeHandler(Opcode, heap, last_result, hook, class_loader,
                                       method_idx, args, TraceStr(trace_map, pc)),
                         args, regs)

\* 0x74-0x78 invoke-kind/range {vCCCC .. vNNNN}, meth@BBBB
execute_invoke_range ==
    /\ Fetches(116..120, 5)
    /\ LET regs == decode_invoke_range_regs(bytecode, pc + 1)
           args == [i \in 1..Len(regs) |-> registers[regs[i] + 1]]
           method_idx == decode_invoke_method_idx(bytecode, pc + 1)
       IN  /\ \A i \in 1..Len(regs) : RegOk(registers, regs[i])
           /\ InvokeDone(InvokeHandler(Opcode, heap, last_result, hook, class_loader,
                                       method_idx, args, TraceStr(trace_map, pc)),
                         args, regs)

---------------------------------------------------------------------------
(* One DalvikVM over the invoke handlers (specification SpecInvoke).  The  *)
(* method is an invoke, a move-result and a return-void, with or without   *)
(* an invoke-static of Math.abs before them; the invoke has one argument,  *)
(* v0, or the five arguments v0 .. v4.                                     *)

I35c5(op, n, bbbb) == << op, n * 16 + 4 >> \o LE(bbbb, 2) \o << 16, 50 >>
I3rc(op, n, bbbb, cccc) == << op, n >> \o LE(bbbb, 2) \o LE(cccc, 2)

OpName(op) ==
    CASE op = 110 -> <<"i", "n", "v", "o", "k", "e", "-", "v", "i", "r", "t", "u", "a", "l">>
      [] op = 111 -> <<"i", "n", "v", "o", "k", "e", "-", "s", "u", "p", "e", "r">>
      [] op = 112 -> <<"i", "n", "v", "o", "k", "e", "-", "d", "i", "r", "e", "c", "t">>
      [] op = 113 -> <<"i", "n", "v", "o", "k", "e", "-", "s", "t", "a", "t", "i", "c">>
      [] op = 114 -> <<"i", "n", "v", "o", "k", "e", "-", "i", "n", "t", "e", "r", "f", "a", "c", "e">>
      [] op = 116 -> <<"i", "n", "v", "o", "k", "e", "-", "v", "i", "r", "t", "u", "a", "l", "/", "r", "a", "n", "g", "e">>
      [] op = 117 -> <<"i", "n", "v", "o", "k", "e", "-", "s", "u", "p", "e", "r", "/", "r", "a", "n", "g", "e">>
      [] op = 118 -> <<"i", "n", "v", "o", "k", "e", "-", "d", "i", "r", "e", "c", "t", "/", "r", "a", "n", "g", "e">>
      [] op = 119 -> <<"i", "n", "v", "o", "k", "e", "-", "s", "t", "a", "t", "i", "c", "/", "r", "a", "n", "g", "e">>
      [] OTHER    -> <<"i", "n", "v", "o", "k", "e", "-", "i", "n", "t", "e", "r", "f", "a", "c", "e", "/", "r", "a", "n", "g", "e">>

\* The methods the invokes name, by method index.
MethodRefs ==
    << <<"L", "A", ";", "-", ">", "f", "(", ")", "I">>,
       <<"L", "A", ";", "-", ">", "g", "(", "I", ")", "I">>,
       <<"L", "a", "n", "d", "r", "o", "i", "d", "/", "c", "o", "n", "t", "e", "n", "t", "/", "C", "o", "n", "t", "e", "x", "t", ";", "-", ">", "g", "e", "t", "P", "a", "c", "k", "a", "g", "e", "N", "a", "m", "e", "(", ")", "L", "j", "a", "v", "a", "/", "l", "a", "n", "g", "/", "S", "t", "r", "i", "n", "g", ";">>,
       <<"L", "j", "a", "v", "a", "/", "l", "a", "n", "g", "/", "T", "h", "r", "o", "w", "a", "b", "l", "e", ";", "-", ">", "g", "e", "t", "C", "a", "u", "s", "e", "(", ")", "L", "j", "a", "v", "a", "/", "l", "a", "n", "g", "/", "T", "h", "r", "o", "w", "a", "b", "l", "e", ";">>,
       <<"L", "j", "a", "v", "a", "/", "l", "a", "n", "g", "/", "S", "t", "r", "i", "n", "g", ";", "-", ">", "l", "e", "n", "g", "t", "h", "(", ")", "I">>,
       <<"L", "j", "a", "v", "a", "/", "i", "o", "/", "P", "r", "i", "n", "t", "S", "t", "r", "e", "a", "m", ";", "-", ">", "p", "r", "i", "n", "t", "l", "n", "(", "L", "j", "a", "v", "a", "/", "l", "a", "n", "g", "/", "S", "t", "r", "i", "n", "g", ";", ")", "V">>,
       <<"L", "j", "a", "v", "a", "/", "l", "a", "n", "g", "/", "M", "a", "t", "h", ";", "-", ">", "a", "b", "s", "(", "I", ")", "I">>,
       <<"L", "j", "a", "v", "a", "/", "l", "a", "n", "g", "/", "S", "y", "s", "t", "e", "m", ";", "-", ">", "a", "r", "r", "a", "y", "c", "o", "p", "y", "(", "L", "j", "a", "v", "a", "/", "l", "a", "n", "g", "/", "O", "b", "j", "e", "c", "t", ";", "I", "L", "j", "a", "v", "a", "/", "l", "a", "n", "g", "/", "O", "b", "j", "e", "c", "t", ";", "I", "I", ")", "V">>,
       <<"L", "j", "a", "v", "a", "/", "l", "a", "n", "g", "/", "C", "l", "a", "s", "s", ";", "-", ">", "f", "o", "r", "N", "a", "m", "e", "(", "L", "j", "a", "v", "a", "/", "l", "a", "n", "g", "/", "S", "t", "r", "i", "n", "g", ";", ")", "L", "j", "a", "v", "a", "/", "l", "a", "n", "g", "/", "C", "l", "a", "s", "s", ";">>,
       <<"L", "j", "a", "v", "a", "/", "l", "a", "n", "g", "/", "S", "t", "r", "i", "n", "g", "B", "u", "i", "l", "d", "e", "r", ";", "-", ">", "<", "i", "n", "i", "t", ">", "(", ")", "V">>,
       <<"L", "A", ";", "-", ">", "<", "i", "n", "i", "t", ">", "(", ")", "V">> >>

InvokeText(op, k) == OpName(op) \o <<" ", "{", "v", "0", "}", ",", " ">> \o MethodRefs[k]

\* The invoke of method k: arraycopy takes five arguments.
InvokeInsn(op, k) ==
    LET n == IF k = 8 THEN 5 ELSE 1
    IN  IF op \in 110..114 THEN I35c5(op, n, k) ELSE I3rc(op, n, k, 0)

InvokeOps == (110..114) \cup (116..120)

\* A method and its trace map: with text tells whether the trace map holds
\* the invoke.
InvokeCase(op, k, before, text) ==
    LET pre == IF before THEN I35c5(113, 1, 7) ELSE << >>
        at == Len(pre)
    IN  [bytecode |-> pre \o InvokeInsn(op, k) \o I11x(10, 0) \o I10x(14),
         trace_map |-> (IF before THEN 0 :> InvokeText(113, 7) ELSE << >>)
                         @@ (IF text THEN at :> InvokeText(op, k) ELSE << >>)]

InvokeCases ==
    { InvokeCase(op, k, before, TRUE) :
        op \in InvokeOps, k \in 1..Len(MethodRefs), before \in BOOLEAN }
      \cup { InvokeCase(op, 1, FALSE, FALSE) : op \in InvokeOps }

\* A string "ab", an array of two ints and an array of three.
InvokeHeap ==
    << [DalvikObject("Ljava/lang/String;") EXCEPT
            !.attrs = ("internal_value" :> PyStr(<<"a", "b">>))],
       [DalvikArray(<<"I">>, 2) EXCEPT !.data = << IntW(PyInt(5)), IntW(PyInt(6)) >>],
       DalvikArray(<<"I">>, 3) >>

InvokeValues(r) ==
    CASE r = 1 -> { RefV(1), ArrV(2), IntW(PyInt(-3)), Null }
      [] r = 2 -> { IntW(IntOne) }
      [] r = 3 -> { ArrV(3), ArrV(2) }
      [] r = 4 -> { IntW(IntZero) }
      [] OTHER -> { IntW(PyInt(2)) }

HookKinds == { "none", "declines", "answers" }
LoaderKinds == { "none", "empty", "archive" }

InitInvoke ==
    /\ \E c \in InvokeCases : bytecode = c.bytecode /\ trace_map = c.trace_map
    /\ pc = 0
    /\ registers \in { << a, b, c, d, e >> :
                          a \in InvokeValues(1), b \in InvokeValues(2),
                          c \in InvokeValues(3), d \in InvokeValues(4),
                          e \in InvokeValues(5) }
    /\ finished = FALSE
    /\ last_result = NoResult
    /\ last = [p |-> 0, op |-> -1, regs |-> << >>, taken |-> FALSE, err |-> FALSE,
               res |-> NoResult]
    /\ LoaderIdle
    /\ caller = << >>
    /\ requested = [class |-> << >>, name |-> << >>]
    /\ stage = [ph |-> "idle", k |-> 0]
    /\ site_candidates = << >>
    /\ call_pc = 0
    /\ arg_regs = << >>
    /\ dependency_pcs = {}
    /\ slice_vm = [pc |-> 0, finished |-> FALSE, executed |-> << >>,
                   was |-> [pc |-> 0, finished |-> FALSE]]
    /\ heap = InvokeHeap
    /\ hook \in HookKinds
    /\ class_loader \in LoaderKinds
    /\ MockIdle

NextInvoke ==
    \/ execute_invoke \/ execute_invoke_range
    \/ execute_move_result \/ execute_return_void

SpecInvoke == InitInvoke /\ [][NextInvoke]_vars

---------------------------------------------------------------------------
(* Properties of SpecInvoke.                                               *)

\* An invoke is about to run, and its argument registers can be read.
InvokeAbout ==
    /\ Fetches(InvokeOps, 5)
    /\ \A i \in DOMAIN InvokeRegs : RegOk(registers, InvokeRegs[i])

\* The arguments, method index and text of the invoke at pc.
InvokeArgValues == [i \in DOMAIN InvokeRegs |-> registers[InvokeRegs[i] + 1]]
InvokeMethodIdx == decode_invoke_method_idx(bytecode, pc + 1)
InvokeTrace == TraceStr(trace_map, pc)

\* The four stages on the invoke at pc: the framework hook table (the static
\* table for invoke-static, the virtual table for the other kinds), the
\* built-in emulation, the user hook, the class loader.
StageFramework ==
    IF Opcode \in {113, 119} THEN android_static_hook(heap, InvokeArgValues, InvokeTrace)
    ELSE android_virtual_hook(heap, InvokeArgValues, InvokeTrace)
StageBuiltin ==
    IF Opcode \in {113, 119}
      THEN builtin_static_hooks_by_trace(heap, InvokeArgValues, InvokeTrace)
      ELSE builtin_virtual_hooks(heap, InvokeArgValues, InvokeTrace)
StageUser == user_hook(hook, InvokeMethodIdx, InvokeArgValues)
StageLoader == resolve_and_execute(class_loader, InvokeMethodIdx, InvokeTrace)

\* The last_result the first matching stage gives, in the order framework
\* table, built-in emulation, user hook, class loader.
FirstMatch ==
    IF StageFramework.hit THEN Wrapped(StageFramework)
    ELSE IF StageBuiltin.some THEN Boxed(StageBuiltin.val)
    ELSE IF StageUser.some THEN Boxed(StageUser.val)
    ELSE IF StageLoader.some THEN Boxed(StageLoader.val)
    ELSE Boxed(Null)

\* C21: for every invoke kind the stages are consulted in the order
\* framework hook table, built-in emulation, user hook, class loader: the
\* first stage that matches determines last_result, a later stage only
\* when every earlier one did not match.
C21_DispatchOrder ==
    [][InvokeAbout => last_result' = FirstMatch]_vars

\* No hook matches the invoke at pc and the class loader finds no method.
NothingMatches ==
    /\ ~StageFramework.hit
    /\ ~StageBuiltin.hit
    /\ ~StageUser.some
    /\ ~StageLoader.some
    /\ ~resolve_and_execute(class_loader, InvokeMethodIdx, << >>).some

\* C22: after an invoke of any kind, range forms included, for which no
\* hook matches and the class loader finds no executable method,
\* last_result is null, so that a move-result behind it does not get the
\* result of an earlier invoke.
C22_NullResultWhenNothingMatches ==
    [][(InvokeAbout /\ NothingMatches) => last_result'.val = Null]_vars

\* C23: an invoke in range form leaves the last_result and the heap that
\* the non-range invoke of its kind leaves for the same text and the same
\* argument values, changes no static store, and moves pc 6 bytes on.
C23_RangeFormEquivalent ==
    [][(InvokeAbout /\ Opcode \in 116..120) =>
         LET o == InvokeHandler(Opcode - 6, heap, last_result, hook, class_loader,
                                InvokeMethodIdx, InvokeArgValues, InvokeTrace)
         IN  /\ last_result' = o.res
             /\ heap' = o.heap
             /\ storeObjs' = storeObjs /\ globalStore' = globalStore
             /\ pc' = pc + 6]_vars
---------------------------------------------------------------------------
(* Part V: interpreters that follow one another over the global            *)
(* static-field store (specification SpecStatic).  Every method is run by  *)
(* a DalvikVM of its own, with two registers and its one argument in v1,   *)
(* as execute_method makes it; its trace map holds the text of every       *)
(* instruction, as build_trace_map makes it.                               *)

StaticOpName(op) ==
    CASE op = 96  -> <<"s", "g", "e", "t">>
      [] op = 98  -> <<"s", "g", "e", "t", "-", "o", "b", "j", "e", "c", "t">>
      [] op = 103 -> <<"s", "p", "u", "t">>
      [] OTHER    -> <<"s", "p", "u", "t", "-", "o", "b", "j", "e", "c", "t">>

\* ins.get_name() + " " + ins.get_output() of a 21c field instruction
FieldText(op, reg, k) ==
    StaticOpName(op) \o <<" ", "v">> \o ToStr(reg) \o <<",", " ">> \o FieldRefs[k].class \o Arrow
      \o FieldRefs[k].name \o <<" ">> \o FieldRefs[k].type

\* sget writes v0, sput reads v1.
FieldInsn(op, k) == [op |-> op, reg |-> IF op < 103 THEN 0 ELSE 1, k |-> k]

RECURSIVE StaticMethod(_, _)
\* The bytecode and the trace map of a list of field instructions behind at
\* bytes of code, with the return-void that ends the method.
StaticMethod(insns, at) ==
    IF insns = << >> THEN [bytecode |-> I10x(14), trace_map |-> << >>]
    ELSE LET i == Head(insns)
             rest == StaticMethod(Tail(insns), at + 4)
         IN  [bytecode |-> I21(i.op, i.reg, i.k) \o rest.bytecode,
              trace_map |-> (at :> FieldText(i.op, i.reg, i.k)) @@ rest.trace_map]

\* The fields a method stores to, and the fields it reads: LA;->g is never
\* stored to.
PutFields == {1, 3, 4}
GetFields == 1..Len(FieldRefs)

StaticMethods ==
    { StaticMethod(<< FieldInsn(103, i), FieldInsn(96, i) >>, 0) : i \in PutFields }
      \cup { StaticMethod(<< FieldInsn(103, 1), FieldInsn(96, 3) >>, 0),
              StaticMethod(<< FieldInsn(105, 1) >>, 0),
              StaticMethod(<< FieldInsn(98, 2) >>, 0) }
      \cup { StaticMethod(<< FieldInsn(103, i) >>, 0) : i \in PutFields }
      \cup { StaticMethod(<< FieldInsn(96, j) >>, 0) : j \in GetFields }

\* The arguments of the methods.
StaticValues == { IntW(PyInt(7)), Null }

\* The SDK integers the configuration is set to.
SdkInts == { 21, 30 }

\* The StaticFieldStore objects of one run.
MaxStores == 2

InitStatic ==
    /\ \E m \in StaticMethods : bytecode = m.bytecode /\ trace_map = m.trace_map
    /\ pc = 0
    /\ registers \in { << Null, a >> : a \in StaticValues }
    /\ finished = FALSE
    /\ last_result = NoResult
    /\ last = [p |-> 0, op |-> -1, regs |-> << >>, taken |-> FALSE, err |-> FALSE,
               res |-> NoResult]
    /\ LoaderIdle
    /\ caller = << >>
    /\ requested = [class |-> << >>, name |-> << >>]
    /\ stage = [ph |-> "idle", k |-> 0]
    /\ site_candidates = << >>
    /\ call_pc = 0
    /\ arg_regs = << >>
    /\ dependency_pcs = {}
    /\ slice_vm = [pc |-> 0, finished |-> FALSE, executed |-> << >>,
                   was |-> [pc |-> 0, finished |-> FALSE]]
    /\ ObjIdle

staticRest == <<program, stack, ev, clinitRuns, calls, phase, results, call_sites,
                caller, requested, stage, site_candidates, call_pc, arg_regs,
                dependency_pcs, slice_vm, heap, hook, class_loader>>

\* The method has returned and another one is executed: a DalvikVM is made
\* for it, its trace map is set and its argument is loaded into the last
\* register.
execute_method ==
    /\ finished
    /\ \E m \in StaticMethods : bytecode' = m.bytecode /\ trace_map' = m.trace_map
    /\ pc' = 0
    /\ \E a \in StaticValues : registers' = << Null, a >>
    /\ finished' = FALSE
    /\ last_result' = NoResult
    /\ last' = [p |-> 0, op |-> -1, regs |-> << >>, taken |-> FALSE, err |-> FALSE,
                res |-> NoResult]
    /\ UNCHANGED <<storeObjs, globalStore, mockVars, staticRest>>

\* reset_static_field_store(), between two methods.
reset_static_field_store ==
    /\ finished
    /\ Len(storeObjs) < MaxStores
    /\ LET r == ResetStaticFieldStore(storeObjs, globalStore)
       IN  storeObjs' = r.objs /\ globalStore' = r.g
    /\ field_log' = << >>
    /\ UNCHANGED <<bytecode, pc, registers, finished, last_result, last, trace_map,
                   mock_config, staticRest>>

\* The user sets mock_config.sdk_int, between two methods.
set_sdk_int ==
    /\ finished
    /\ \E v \in SdkInts \ {mock_config.sdk_int} :
          mock_config' = [mock_config EXCEPT !.sdk_int = v]
    /\ UNCHANGED <<bytecode, pc, registers, finished, last_result, last, trace_map,
                   storeObjs, globalStore, field_log, staticRest>>

NextStatic ==
    \/ execute_sput \/ execute_sget \/ execute_return_void
    \/ execute_method \/ reset_static_field_store \/ set_sdk_int

SpecStatic == InitStatic /\ [][NextStatic]_vars

---------------------------------------------------------------------------
(* Claims of SpecStatic.                                                   *)

\* The step executes the sget, or the sput, at pc.
SgetStep == Fetches(96..102, 1) /\ last'.p = pc /\ ~last'.err /\ pc' = pc + 4
SputStep == Fetches(103..109, 1) /\ last'.p = pc /\ ~last'.err /\ pc' = pc + 4

\* The operands of the field instruction at pc.
StaticReg == PyIndex(bytecode, pc + 1)
StaticFieldIdx == read_u16(bytecode, pc + 2)

\* The field is listed in the framework static-field table.
IsFrameworkField(k) ==
    (FieldRefs[k].class \o Arrow \o FieldRefs[k].name) \in DOMAIN ANDROID_STATIC_FIELDS

Absent == [t |-> "absent", i |-> 0, c |-> ""]
\* The entry of the store in use for a class and a field name.
StoredField(objs, g, key) ==
    IF g = 0 THEN Absent ELSE StoreGet(objs[g], key[1], key[2], Absent)

FrameworkValue(k) ==
    CASE FieldRefs[k].name = <<"S", "D", "K", "_", "I", "N", "T">> -> IntW(PyInt(mock_config.sdk_int))
      [] FieldRefs[k].class = <<"L", "j", "a", "v", "a", "/", "l", "a", "n", "g", "/", "I", "n", "t", "e", "g", "e", "r", ";">> -> PyStr(<<"i", "n", "t">>)
      [] OTHER -> PyStr(<<"l", "o", "n", "g">>)

\* C32: an sget of a field of the framework static-field table leaves the
\* framework's value in the destination register, whatever the store
\* holds for the field; for Build.VERSION.SDK_INT it is the SDK integer
\* mock_config holds when the sget is executed.
C32_FrameworkFieldFirst ==
    [][ (SgetStep /\ IsFrameworkField(StaticFieldIdx)) =>
            registers'[StaticReg + 1] = FrameworkValue(StaticFieldIdx) ]_vars

---------------------------------------------------------------------------
(* opcodes/objects.py and opcodes/move.py: new-instance and                *)
(* move-result-object.                                                     *)

RECURSIVE StripBlanks(_)
\* s.strip()
StripBlanks(s) ==
    IF s = << >> THEN s
    ELSE IF Head(s) = " " THEN StripBlanks(Tail(s))
    ELSE IF s[Len(s)] = " " THEN StripBlanks(SubSeq(s, 1, Len(s) - 1))
    ELSE s

\* The class name with the characters chars.
ClassNamed(chars) ==
    CASE chars = <<"L", "j", "a", "v", "a", "/", "l", "a", "n", "g", "/", "S", "t", "r", "i", "n", "g", ";">> -> "Ljava/lang/String;"
      [] chars = <<"L", "j", "a", "v", "a", "/", "l", "a", "n", "g", "/", "S", "t", "r", "i", "n", "g", "B", "u", "i", "l", "d", "e", "r", ";">> -> "Ljava/lang/StringBuilder;"
      [] chars = <<"L", "j", "a", "v", "a", "/", "l", "a", "n", "g", "/", "C", "l", "a", "s", "s", ";">> -> "Ljava/lang/Class;"
      [] chars = <<"L", "A", ";">> -> "LA;"
      [] OTHER -> "<class>"

\* 0x22 new-instance vAA, type@BBBB: the class name is the text behind the
\* last ", " of the trace text, "<class_BBBB>" without text.
execute_new_instance ==
    /\ Fetches({34}, 1)
    /\ LET reg == PyIndex(bytecode, pc + 1)
           trace_str == TraceStr(trace_map, pc)
           parts == SplitOn(trace_str, <<",", " ">>)
           class_name == IF trace_str # << >> /\ Len(parts) > 1
                           THEN ClassNamed(StripBlanks(parts[Len(parts)]))
                           ELSE "<class>"
       IN  HeapStep((pc + 1) + 3, RegSet(registers, reg, RefV(Len(heap) + 1)),
                    Append(heap, DalvikObject(class_name)))

\* 0x27 throw vAA: finished is set, pc moves by one byte.
execute_throw ==
    /\ Fetches({39}, 0)
    /\ finished' = TRUE
    /\ pc' = (pc + 1) + 1
    /\ last' = Hist(FALSE)
    /\ UNCHANGED <<bytecode, registers, last_result, loaderVars>>

\* 0x0c move-result-object vAA
execute_move_result_object ==
    /\ Fetches({12}, 1)
    /\ LET reg == PyIndex(bytecode, pc + 1)
       IN  VMStep((pc + 1) + 1,
                  RegSet(registers, reg, IF last_result.box THEN last_result.val ELSE Null),
                  FALSE)

---------------------------------------------------------------------------
(* One DalvikVM over a string builder (specification SpecBuilder).  The    *)
(* method makes a builder in v0, appends v1 or v2 up to two times, takes   *)
(* the string into v3, appends v2 and takes the string into v4.            *)

BuilderRefs ==
    << <<"L", "j", "a", "v", "a", "/", "l", "a", "n", "g", "/", "S", "t", "r", "i", "n", "g", "B", "u", "i", "l", "d", "e", "r", ";", "-", ">", "<", "i", "n", "i", "t", ">", "(", ")", "V">>,
       <<"L", "j", "a", "v", "a", "/", "l", "a", "n", "g", "/", "S", "t", "r", "i", "n", "g", "B", "u", "i", "l", "d", "e", "r", ";", "-", ">", "a", "p", "p", "e", "n", "d", "(", "L", "j", "a", "v", "a", "/", "l", "a", "n", "g", "/", "S", "t", "r", "i", "n", "g", ";", ")", "L", "j", "a", "v", "a", "/", "l", "a", "n", "g", "/", "S", "t", "r", "i", "n", "g", "B", "u", "i", "l", "d", "e", "r", ";">>,
       <<"L", "j", "a", "v", "a", "/", "l", "a", "n", "g", "/", "S", "t", "r", "i", "n", "g", "B", "u", "i", "l", "d", "e", "r", ";", "-", ">", "t", "o", "S", "t", "r", "i", "n", "g", "(", ")", "L", "j", "a", "v", "a", "/", "l", "a", "n", "g", "/", "S", "t", "r", "i", "n", "g", ";">> >>

\* One instruction and its text: new-instance v0, invoke-direct {v0},
\* invoke-virtual {v0, vX} append, invoke-virtual {v0} toString,
\* move-result-object vX.
BuilderInsn(kind, x) ==
    CASE kind = "new" ->
           [code |-> I21(34, 0, 1), text |-> <<"n", "e", "w", "-", "i", "n", "s", "t", "a", "n", "c", "e", " ", "v", "0", ",", " ", "L", "j", "a", "v", "a", "/", "l", "a", "n", "g", "/", "S", "t", "r", "i", "n", "g", "B", "u", "i", "l", "d", "e", "r", ";">>]
      [] kind = "init" ->
           [code |-> I35c(112, 1, 1, 0), text |-> <<"i", "n", "v", "o", "k", "e", "-", "d", "i", "r", "e", "c", "t", " ", "v", "0", ",", " ">> \o BuilderRefs[1]]
      [] kind = "append" ->
           [code |-> I35c(110, 2, 2, x * 16),
            text |-> <<"i", "n", "v", "o", "k", "e", "-", "v", "i", "r", "t", "u", "a", "l", " ", "v", "0", ",", " ", "v">> \o ToStr(x) \o <<",", " ">> \o BuilderRefs[2]]
      [] kind = "toString" ->
           [code |-> I35c(110, 1, 3, 0), text |-> <<"i", "n", "v", "o", "k", "e", "-", "v", "i", "r", "t", "u", "a", "l", " ", "v", "0", ",", " ">> \o BuilderRefs[3]]
      [] OTHER ->
           [code |-> I11x(12, x), text |-> <<"m", "o", "v", "e", "-", "r", "e", "s", "u", "l", "t", "-", "o", "b", "j", "e", "c", "t", " ", "v">> \o ToStr(x)]

RECURSIVE BuilderMethod(_, _)
\* The bytecode and the trace map of a list of instructions behind at bytes
\* of code, with the return-void that ends the method.
BuilderMethod(insns, at) ==
    IF insns = << >> THEN [bytecode |-> I10x(14), trace_map |-> (at :> <<"r", "e", "t", "u", "r", "n", "-", "v", "o", "i", "d">>)]
    ELSE LET i == Head(insns)
             rest == BuilderMethod(Tail(insns), at + Len(i.code))
         IN  [bytecode |-> i.code \o rest.bytecode,
              trace_map |-> (at :> i.text) @@ rest.trace_map]

\* The appends before the first toString: none, one or two, and with or
\* without a move-result-object v0 behind the first one.
BuilderAppends ==
    { << >> } \cup { << BuilderInsn("append", x) >> : x \in {1, 2} }
      \cup { << BuilderInsn("append", x), BuilderInsn("append", y) >> : x, y \in {1, 2} }
      \cup { << BuilderInsn("append", x), BuilderInsn("result", 0), BuilderInsn("append", y) >> :
               x, y \in {1, 2} }

BuilderMethods ==
    { BuilderMethod(<< BuilderInsn("new", 0), BuilderInsn("init", 0) >> \o a
                      \o << BuilderInsn("toString", 0), BuilderInsn("result", 3),
                            BuilderInsn("append", 2),
                            BuilderInsn("toString", 0), BuilderInsn("result", 4) >>, 0) :
        a \in BuilderAppends }

\* The strings "a", "bc" and "".
BuilderHeap ==
    << [DalvikObject("Ljava/lang/String;") EXCEPT
            !.attrs = ("internal_value" :> PyStr(<<"a">>))],
       [DalvikObject("Ljava/lang/String;") EXCEPT
            !.attrs = ("internal_value" :> PyStr(<<"b", "c">>))],
       [DalvikObject("Ljava/lang/String;") EXCEPT
            !.attrs = ("internal_value" :> PyStr(<< >>))] >>

BuilderValues(r) ==
    CASE r = 2 -> { RefV(1), RefV(3), Null, IntW(PyInt(98)) }
      [] r = 3 -> { RefV(2), RefV(1), RefV(3) }
      [] OTHER -> { Null }

InitBuilder ==
    /\ \E m \in BuilderMethods : bytecode = m.bytecode /\ trace_map = m.trace_map
    /\ pc = 0
    /\ registers \in { << Null, a, b, Null, Null >> :
                          a \in BuilderValues(2), b \in BuilderValues(3) }
    /\ finished = FALSE
    /\ last_result = NoResult
    /\ last = [p |-> 0, op |-> -1, regs |-> << >>, taken |-> FALSE, err |-> FALSE,
               res |-> NoResult]
    /\ LoaderIdle
    /\ caller = << >>
    /\ requested = [class |-> << >>, name |-> << >>]
    /\ stage = [ph |-> "idle", k |-> 0]
    /\ site_candidates = << >>
    /\ call_pc = 0
    /\ arg_regs = << >>
    /\ dependency_pcs = {}
    /\ slice_vm = [pc |-> 0, finished |-> FALSE, executed |-> << >>,
                   was |-> [pc |-> 0, finished |-> FALSE]]
    /\ heap = BuilderHeap
    /\ hook = "none"
    /\ class_loader \in {"none", "empty"}
    /\ MockIdle

NextBuilder ==
    \/ execute_new_instance \/ execute_invoke \/ execute_move_result_object
    \/ execute_return_void

SpecBuilder == InitBuilder /\ [][NextBuilder]_vars

---------------------------------------------------------------------------
(* Claims of SpecBuilder.                                                  *)

\* The instruction at offset p of the method is the invoke of method k.
InvokesRef(p, k) ==
    /\ p + 6 <= Len(bytecode)
    /\ bytecode[p + 1] \in {110, 112}
    /\ bytecode[p + 3] + 256 * bytecode[p + 4] = k

RECURSIVE AppendedFrom(_, _)
\* The argument registers of the appends from offset p up to offset q of
\* the method, in the order of the code.
AppendedFrom(p, q) ==
    IF p >= q THEN << >>
    ELSE IF bytecode[p + 1] = 34 THEN AppendedFrom(p + 4, q)
    ELSE IF bytecode[p + 1] = 12 THEN AppendedFrom(p + 2, q)
    ELSE IF InvokesRef(p, 2) THEN << bytecode[p + 5] \div 16 >> \o AppendedFrom(p + 6, q)
    ELSE AppendedFrom(p + 6, q)

\* The offsets of the invokes of toString.
ToStringSites ==
    { p \in 0..(Len(bytecode) - 1) : p \in DOMAIN trace_map /\ InvokesRef(p, 3) }

\* The register holds a string of the method's arguments.
HoldsString(r) == registers[r + 1].t = "ref" /\ registers[r + 1].i <= Len(BuilderHeap)

RECURSIVE Concatenation(_)
\* The internal values of the strings in the registers rs, one behind the
\* other.
Concatenation(rs) ==
    IF rs = << >> THEN << >>
    ELSE BuilderHeap[registers[Head(rs) + 1].i].attrs["internal_value"].i
           \o Concatenation(Tail(rs))

\* C33: once the result of a toString of the builder is in its register,
\* that register holds a string-class object which is no other register's
\* object and whose internal value is the concatenation of the strings
\* appended before that toString, in order, also after later appends to
\* the builder.
C33_BuilderToString ==
    \A p \in ToStringSites :
       LET appended == AppendedFrom(0, p)
           reg == bytecode[p + 8]
       IN  (pc >= p + 8 /\ \A i \in 1..Len(appended) : HoldsString(appended[i])) =>
              /\ registers[reg + 1].t = "ref"
              /\ \A r \in 0..(Len(registers) - 1) :
                    r # reg => registers[r + 1] # registers[reg + 1]
              /\ heap[registers[reg + 1].i].class_name = "Ljava/lang/String;"
              /\ heap[registers[reg + 1].i].attrs["internal_value"]
                   = PyStr(Concatenation(appended))

\* The method has appended "a" and "bc", taken the string "abc", appended
\* "bc" and taken the string "abcbc"; the first string is still "abc".
C33_Witness ==
    /\ finished
    /\ AppendedFrom(0, Len(bytecode)) = << 1, 2, 2 >>
    /\ registers[2] = RefV(1) /\ registers[3] = RefV(2)
    /\ registers[4].t = "ref" /\ registers[5].t = "ref"
    /\ heap[registers[4].i].attrs["internal_value"] = PyStr(<<"a", "b", "c">>)
    /\ heap[registers[5].i].attrs["internal_value"] = PyStr(<<"a", "b", "c", "b", "c">>)

---------------------------------------------------------------------------
(* One DalvikVM whose invoke reaches the class loader (specification       *)
(* SpecCall).  The method is an invoke with the argument v0, a move-result *)
(* into v1 and a return-void; its class loader is a LazyClassLoader over   *)
(* DexMethods, and it has no user hook.                                    *)

\* The method references of the invoke instructions, by method index: the
\* methods of ParserMethods with their descriptors, and a method no class
\* of the archive declares.
CallRef(method_idx) ==
    CASE method_idx = 0 -> [class |-> <<"L", "A", ";">>, name |-> <<"f">>, descriptor |-> <<"(", ")", "I">>]
      [] method_idx = 1 -> [class |-> <<"L", "A", ";">>, name |-> <<"f">>, descriptor |-> <<"(", "I", ")", "I">>]
      [] method_idx = 2 -> [class |-> <<"L", "A", ";">>, name |-> <<"t">>, descriptor |-> <<"(", ")", "I">>]
      [] method_idx = 3 -> [class |-> <<"L", "A", ";">>, name |-> <<"n">>, descriptor |-> <<"(", ")", "I">>]
      [] method_idx = 4 -> [class |-> <<"L", "A", ";">>, name |-> <<"w">>, descriptor |-> <<"(", "I", ")", "I">>]
      [] method_idx = 5 -> [class |-> <<"L", "A", ";">>, name |-> <<"c">>, descriptor |-> <<"(", "I", ")", "I">>]
      [] method_idx = 6 -> [class |-> <<"L", "B", ";">>, name |-> <<"g">>, descriptor |-> <<"(", "I", ")", "I">>]
      [] OTHER          -> [class |-> <<"L", "C", ";">>, name |-> <<"x">>, descriptor |-> <<"(", "I", ")", "I">>]

\* The method indices the invokes name; 9 is past the end of parser.methods.
CallIdx == (0..6) \cup {9}

\* ins.get_name() + " " + ins.get_output() of the invoke
CallText(op, k) ==
    OpName(op) \o <<" ", "v", "0", ",", " ">> \o CallRef(k).class \o Arrow \o CallRef(k).name
      \o CallRef(k).descriptor

\* A method and its trace map: with text tells whether the trace map holds
\* the invoke.
CallCase(op, k, text) ==
    [bytecode |-> (IF op \in 110..114 THEN I35c5(op, 1, k) ELSE I3rc(op, 1, k, 0))
                    \o I11x(10, 1) \o I10x(14),
     trace_map |-> IF text THEN 0 :> CallText(op, k) ELSE << >>]

CallCases == { CallCase(op, k, text) : op \in InvokeOps, k \in CallIdx, text \in BOOLEAN }

\* The argument in v0.
CallValues == { IntV(7), Null }

InitCalls ==
    /\ \E m \in CallCases : bytecode = m.bytecode /\ trace_map = m.trace_map
    /\ pc = 0
    /\ registers \in { << a, Null >> : a \in CallValues }
    /\ finished = FALSE
    /\ last_result = NoResult
    /\ last = [p |-> 0, op |-> -1, regs |-> << >>, taken |-> FALSE, err |-> FALSE,
               res |-> NoResult]
    /\ LoaderIdle
    /\ caller = << >>
    /\ requested = [class |-> << >>, name |-> << >>]
    /\ stage = [ph |-> "idle", k |-> 0]
    /\ site_candidates = << >>
    /\ call_pc = 0
    /\ arg_regs = << >>
    /\ dependency_pcs = {}
    /\ slice_vm = [pc |-> 0, finished |-> FALSE, executed |-> << >>,
                   was |-> [pc |-> 0, finished |-> FALSE]]
    /\ heap = << >>
    /\ hook = "none"
    /\ class_loader = "dex"
    /\ MockIdle

NextCalls ==
    \/ execute_invoke \/ execute_invoke_range
    \/ execute_const_4 \/ execute_move_result \/ execute_return \/ execute_return_void
    \/ execute_throw \/ execute_sput
    \/ method_returns \/ clinit_returns \/ callee_raises

SpecCall == InitCalls /\ [][NextCalls]_vars

\* The outermost interpreter is behind an invoke handler that ran to its
\* end or raised.
AfterInvoke == stack = << >> /\ last.op \in InvokeOps

\* The method index of the invoke the outermost interpreter has dispatched.
InvokedIdx == decode_invoke_method_idx(bytecode, last.p + 1)

\* C34: resolve_and_execute never raises: whatever the method index, the
\* trace text and the callee, no exception leaves it, and an invoke of a
\* method without bytecode leaves the null result.
C34_ResolveNeverRaises ==
    /\ ev.kind # "raised"
    /\ (AfterInvoke /\ ~last.err /\ last.op # 112 /\ InvokedIdx = 3)
          => last_result = Boxed(Null)

\* The interpreter that waits for the running callee, and the reference of
\* its invoke.
Waiting == stack[Len(stack)]
WaitingRef == CallRef(decode_invoke_method_idx(Waiting.bytecode, Waiting.pc + 1))

\* The archive declares the method a reference names, signature included.
Declared(ref) ==
    \E i \in 1..Len(DexMethods) :
        /\ DexMethods[i].class = ref.class
        /\ DexMethods[i].name = ref.name
        /\ DexMethods[i].descriptor = ref.descriptor

\* C36: whenever an invoke handler enters the class loader for an
\* instruction that has trace text, the method that runs is the one the
\* text names by class, name and full signature.
C36_ResolvedBySignature ==
    (stack # << >> /\ ev.kind = "call"
       /\ TraceStr(Waiting.trace_map, Waiting.pc) # << >> /\ Declared(WaitingRef))
      => /\ DexMethods[ev.method].class = WaitingRef.class
         /\ DexMethods[ev.method].name = WaitingRef.name
         /\ DexMethods[ev.method].descriptor = WaitingRef.descriptor

\* A callee has returned and its caller has not yet run another handler.
JustReturned == ev.kind = "returned" /\ last.op \in InvokeOps /\ ~last.err

\* C37: when the invoke returns from a callee the class loader ran, every
\* register of the caller holds the value it held when the invoke was
\* dispatched, and pc is behind the invoke.
C37_CallerRegistersKept ==
    JustReturned => registers = last.regs /\ pc = (last.p + 1) + 5

\* The callee LA;->w(I)I has written the tail register that received the
\* argument and has returned.
C37_Witness ==
    /\ JustReturned
    /\ ev.method = 5
    /\ ev.args = << IntV(7) >>
    /\ ev.regs[Len(ev.regs)] = IntV(5)
    /\ registers[1] = IntV(7)

\* C38: once finished is set, the loop that drives the interpreter runs no
\* further instruction of it: a step that leaves the same interpreter
\* in place leaves its pc in place.
C38_NothingAfterFinished ==
    [][(finished /\ stack' = stack /\ phase' = phase /\ bytecode' = bytecode)
         => pc' = pc]_vars

---------------------------------------------------------------------------
(* static_analysis.py: extract_args_static and _trace_register_source over *)
(* the texts of a trace map.                                               *)

\* ArgInfo(register, value, source, resolved); source_detail is display
\* text only.
ArgInfo(register, value, source, resolved) ==
    [register |-> register, value |-> value, source |-> source, resolved |-> resolved]

HexDigits == <<"0", "1", "2", "3", "4", "5", "6", "7", "8", "9", "a", "b", "c", "d", "e", "f">>

\* s is made of the characters of digits only, and is not empty.
MadeOf(s, digits) ==
    s # << >> /\ \A i \in 1..Len(s) : \E d \in 1..Len(digits) : digits[d] = s[i]

RECURSIVE ToIntBase(_, _, _)
\* The number a string of digits writes to the base Len(digits).
ToIntBase(s, digits, n) ==
    IF n = 0 THEN 0
    ELSE Len(digits) * ToIntBase(s, digits, n - 1)
         + (CHOOSE d \in 0..(Len(digits) - 1) : digits[d + 1] = s[n])

\* The digits of val_str behind its sign, and the base int() is called
\* with: 16 when val_str starts with 0x or -0x, which int(..., 16) accepts
\* in front of the digits.
Unsigned(val_str) == IF StartsWith(val_str, <<"-">>) THEN Tail(val_str) ELSE val_str
IsHex(val_str) == StartsWith(Unsigned(val_str), <<"0", "x">>)
DigitsOf(val_str) ==
    IF IsHex(val_str) THEN SubSeq(Unsigned(val_str), 3, Len(Unsigned(val_str)))
    ELSE Unsigned(val_str)

\* int(val_str) / int(val_str, 16) raises ValueError
IntRaises(val_str) ==
    ~MadeOf(DigitsOf(val_str), IF IsHex(val_str) THEN HexDigits ELSE Digits)

\* int(val_str) / int(val_str, 16), for the texts a trace map holds: an
\* optional minus sign, then decimal digits or 0x and hexadecimal digits.
IntOf(val_str) ==
    LET digits == IF IsHex(val_str) THEN HexDigits ELSE Digits
        n == ToIntBase(DigitsOf(val_str), digits, Len(DigitsOf(val_str)))
    IN  IF StartsWith(val_str, <<"-">>) THEN 0 - n ELSE n

\* The branch of _trace_register_source for an opcode that starts with
\* "const" and writes reg.
TraceConst(reg, parts) ==
    LET val_str == IF Len(parts) > 2 THEN parts[3] ELSE <<"0">>
    IN  IF Contains(parts[1], <<"s", "t", "r", "i", "n", "g">>) /\ Len(parts) >= 3
          THEN ArgInfo(reg, Null, "const-string", FALSE)
        ELSE IF IntRaises(val_str) THEN ArgInfo(reg, Null, "const", FALSE)
        ELSE ArgInfo(reg, IntV(IntOf(val_str)), "const", TRUE)

\* opcode == 'move' or opcode.startswith('move/'), with a register as
\* third part
FollowsMove(parts) ==
    /\ parts[1] = <<"m", "o", "v", "e">> \/ StartsWith(parts[1], <<"m", "o", "v", "e", "/">>)
    /\ Len(parts) >= 3
    /\ IsReg(Strip(parts[3]))

RECURSIVE TraceRegisterSource(_, _, _)
\* The body of the loop of _trace_register_source for the instruction at
\* ipc, whose text splits to parts.  An instruction whose second part is
\* the register and whose opcode no branch names, or a move without a
\* source register, leaves the loop running over the pcs before it.
TraceAt(reg, ipc, tm, parts) ==
    IF Len(parts) < 2 THEN TraceRegisterSource(reg, ipc, tm)
    ELSE IF ~IsReg(Strip(parts[2])) THEN TraceRegisterSource(reg, ipc, tm)
    ELSE IF RegNum(Strip(parts[2])) # reg THEN TraceRegisterSource(reg, ipc, tm)
    ELSE IF StartsWith(parts[1], <<"c", "o", "n", "s", "t">>) THEN TraceConst(reg, parts)
    ELSE IF StartsWith(parts[1], <<"s", "g", "e", "t">>) THEN ArgInfo(reg, Null, "sget", FALSE)
    ELSE IF StartsWith(parts[1], <<"i", "n", "v", "o", "k", "e">>) THEN ArgInfo(reg, Null, "invoke", FALSE)
    ELSE IF FollowsMove(parts) THEN TraceRegisterSource(RegNum(Strip(parts[3])), ipc, tm)
    ELSE IF parts[1] = <<"m", "o", "v", "e", "-", "r", "e", "s", "u", "l", "t">> THEN ArgInfo(reg, Null, "invoke", FALSE)
    ELSE IF parts[1] = <<"m", "o", "v", "e", "-", "r", "e", "s", "u", "l", "t", "-", "o", "b", "j", "e", "c", "t">> THEN ArgInfo(reg, Null, "invoke", FALSE)
    ELSE TraceRegisterSource(reg, ipc, tm)

\* pcs[0] of sorted([pc for pc in trace_map.keys() if pc < start_pc],
\* reverse=True)
NearestBefore(tm, start_pc) ==
    CHOOSE p \in DOMAIN tm : p < start_pc /\ \A q \in DOMAIN tm : q < start_pc => q <= p

\* _trace_register_source: the pcs before start_pc from the nearest on.
TraceRegisterSource(reg, start_pc, tm) ==
    IF { p \in DOMAIN tm : p < start_pc } = {} THEN ArgInfo(reg, Null, "param", FALSE)
    ELSE TraceAt(reg, NearestBefore(tm, start_pc), tm,
                 Split(tm[NearestBefore(tm, start_pc)]))

\* extract_args_static: one ArgInfo per argument register of the invoke.
extract_args_static(call_pc_, tm) ==
    IF call_pc_ \notin DOMAIN tm THEN << >>
    ELSE [i \in 1..Len(InvokeArgRegs(tm, call_pc_)) |->
            TraceRegisterSource(InvokeArgRegs(tm, call_pc_)[i], call_pc_, tm)]

---------------------------------------------------------------------------
(* extract_args_static against the interpreter (specification SpecArgs).   *)
(* A caller is straight code of constant loads and moves that ends in an   *)
(* invoke-static of LA;->w(II)I with the arguments v0 and v1.  The         *)
(* analysis reads the caller's trace map; one DalvikVM of two registers    *)
(* runs the caller's bytes from pc 0.                                      *)

\* An instruction of a caller: what build_trace_map shows of it, and its
\* bytes.
SiteInsn(text, bytes) == [text |-> text, len |-> Len(bytes), bytes |-> bytes]

\* const/4 vA, #+B
Const4Insn(a, lit) ==
    SiteInsn(<<"c", "o", "n", "s", "t", "/", "4", " ", "v">> \o ToStr(a) \o <<",", " ">>
               \o (IF lit < 0 THEN <<"-">> \o ToStr(0 - lit) ELSE ToStr(lit)),
             I11n(18, a, lit))

\* move vA, vB and move-object vA, vB
MoveInsn(op, a, b) ==
    SiteInsn((IF op = 1 THEN <<"m", "o", "v", "e", " ", "v">> ELSE <<"m", "o", "v", "e", "-", "o", "b", "j", "e", "c", "t", " ", "v">>)
               \o ToStr(a) \o <<",", " ", "v">> \o ToStr(b),
             I12x(op, a, b))

\* invoke-static {v0, v1}, LA;->w(II)I, method index 4
SiteInvoke == SiteInsn(<<"i", "n", "v", "o", "k", "e", "-", "s", "t", "a", "t", "i", "c", " ", "v", "0", ",", " ", "v", "1", ",", " ", "L", "A", ";", "-", ">", "w", "(", "I", "I", ")", "I">>, << 113, 32, 4, 0, 16, 0 >>)

\* The instructions a caller is made of in front of its invoke.
ArgInsns ==
    { Const4Insn(a, lit) : a \in {0, 1}, lit \in {1, -2} }
      \cup { MoveInsn(op, a, 1 - a) : op \in {1, 7}, a \in {0, 1} }

\* Instructions of a caller in front of its invoke, at most.
MaxPrefix == 3

ArgCallers ==
    { body \o << SiteInvoke >> : body \in UNION { [1..n -> ArgInsns] : n \in 0..MaxPrefix } }

RECURSIVE CodeOf(_)
\* code_item.get_bc().get_raw(): the bytes of the instructions in a row
CodeOf(instrs) == IF instrs = << >> THEN << >> ELSE Head(instrs).bytes \o CodeOf(Tail(instrs))

\* The caller as build_trace_map reads it: text and length per instruction.
TextOf(instrs) == [i \in 1..Len(instrs) |-> Instr(instrs[i].text, instrs[i].len)]

\* The interpreter over the caller's bytes, and the one call site
\* find_all_call_sites has recorded in its first pass: the caller's last
\* instruction.
SiteOf(c) ==
    /\ caller = TextOf(c)
    /\ trace_map = build_trace_map(TextOf(c))
    /\ bytecode = CodeOf(c)
    /\ call_pc = PcOf(TextOf(c), Len(c))
    /\ site_candidates = << PcOf(TextOf(c), Len(c)) >>

InitArgs ==
    /\ \E c \in ArgCallers : SiteOf(c)
    /\ requested = [class |-> <<"L", "A", ";">>, name |-> <<"w">>]
    /\ stage = Stage("scanned", 0)
    /\ arg_regs = << >>
    /\ dependency_pcs = {}
    /\ slice_vm = NewSliceVM
    /\ pc = 0
    /\ registers \in { << Null, a >> : a \in { Null, IntV(7) } }
    /\ finished = FALSE
    /\ last_result = NoResult
    /\ last = [p |-> 0, op |-> -1, regs |-> << >>, taken |-> FALSE, err |-> FALSE,
               res |-> NoResult]
    /\ LoaderIdle
    /\ ObjIdle

\* find_all_call_sites, second pass, step 1: extract_args_static for the
\* candidate; the site's arg_infos are kept with its pc.
ExtractArgsStatic ==
    /\ stage.ph = "scanned"
    /\ stage.k < Len(site_candidates)
    /\ call_sites' = Append(call_sites,
                            [pc |-> site_candidates[stage.k + 1],
                             arg_infos |-> extract_args_static(site_candidates[stage.k + 1],
                                                               trace_map)])
    /\ stage' = Stage("scanned", stage.k + 1)
    /\ UNCHANGED <<caller, requested, trace_map, site_candidates, call_pc, arg_regs,
                   dependency_pcs, slice_vm,
                   program, storeObjs, globalStore, stack, ev, clinitRuns, calls, phase,
                   results, bytecode, pc, registers, finished, last_result,
                   last, objVars>>

NextArgs ==
    \/ ExtractArgsStatic
    \/ execute_const_4 \/ execute_move \/ execute_invoke

SpecArgs == InitArgs /\ [][NextArgs]_vars

\* The interpreter has run the caller's instructions before the invoke and
\* stands at the call site the analysis has reported on.
AtCallSite == call_sites # << >> /\ pc = call_sites[1].pc /\ ~last.err

\* The argument registers of the invoke at the site.
SiteRegs == InvokeArgRegs(trace_map, call_sites[1].pc)

\* C39: whenever extract_args_static reports an argument register as
\* resolved with value x, the register holds x when the interpreter has
\* run the caller's instructions before the invoke.
C39_ResolvedIsValueAtCall ==
    AtCallSite =>
        \A i \in 1..Len(call_sites[1].arg_infos) :
            call_sites[1].arg_infos[i].resolved =>
                registers[SiteRegs[i] + 1] = call_sites[1].arg_infos[i].value

---------------------------------------------------------------------------
(* dependency_analyzer.py: resolve_args_by_execution around its slice      *)
(* loop, and the mock objects of mocks/factories.py it puts into registers *)
(* and argument lists.                                                     *)

\* param_type in ("Landroid/content/Context;", "Landroid/app/Activity;",
\*                "Landroid/app/Application;")
ContextTypes ==
    { <<"L", "a", "n", "d", "r", "o", "i", "d", "/", "c", "o", "n", "t", "e", "n", "t", "/", "C", "o", "n", "t", "e", "x", "t", ";">>, <<"L", "a", "n", "d", "r", "o", "i", "d", "/", "a", "p", "p", "/", "A", "c", "t", "i", "v", "i", "t", "y", ";">>,
      <<"L", "a", "n", "d", "r", "o", "i", "d", "/", "a", "p", "p", "/", "A", "p", "p", "l", "i", "c", "a", "t", "i", "o", "n", ";">> }

\* factories.ANDROID_MOCK_CLASSES
ANDROID_MOCK_CLASSES ==
    ContextTypes \cup { <<"L", "a", "n", "d", "r", "o", "i", "d", "/", "c", "o", "n", "t", "e", "n", "t", "/", "p", "m", "/", "P", "a", "c", "k", "a", "g", "e", "M", "a", "n", "a", "g", "e", "r", ";">>,
                        <<"L", "a", "n", "d", "r", "o", "i", "d", "/", "c", "o", "n", "t", "e", "n", "t", "/", "p", "m", "/", "P", "a", "c", "k", "a", "g", "e", "I", "n", "f", "o", ";">>,
                        <<"L", "a", "n", "d", "r", "o", "i", "d", "/", "c", "o", "n", "t", "e", "n", "t", "/", "p", "m", "/", "S", "i", "g", "n", "a", "t", "u", "r", "e", ";">> }

\* The class_name of the object create_mock_for_class(class_name) makes:
\* the three context types share create_mock_context.
MockClassName(class_name) ==
    IF class_name \in ContextTypes THEN "Landroid/content/Context;"
    ELSE IF class_name = <<"L", "a", "n", "d", "r", "o", "i", "d", "/", "c", "o", "n", "t", "e", "n", "t", "/", "p", "m", "/", "P", "a", "c", "k", "a", "g", "e", "M", "a", "n", "a", "g", "e", "r", ";">>
      THEN "Landroid/content/pm/PackageManager;"
    ELSE IF class_name = <<"L", "a", "n", "d", "r", "o", "i", "d", "/", "c", "o", "n", "t", "e", "n", "t", "/", "p", "m", "/", "P", "a", "c", "k", "a", "g", "e", "I", "n", "f", "o", ";">>
      THEN "Landroid/content/pm/PackageInfo;"
    ELSE "Landroid/content/pm/Signature;"

\* factories.create_mock_context
create_mock_context(h) ==
    NewObject(h, "Landroid/content/Context;", "_mock_type" :> PyStr(<<"C", "o", "n", "t", "e", "x", "t">>))

\* The first part of the invoke text that holds "->" and "(".
RECURSIVE method_sig_match(_)
method_sig_match(parts) ==
    IF parts = << >> THEN << >>
    ELSE IF Contains(Head(parts), Arrow) /\ Contains(Head(parts), <<"(">>) THEN Head(parts)
    ELSE method_sig_match(Tail(parts))

\* proto.split('(')[1].split(')')[0]
ParamsPart(proto) ==
    LET behind == SplitOn(proto, <<"(">>)[2]
    IN  IF behind = << >> THEN << >> ELSE SplitOn(behind, <<")">>)[1]

Primitives == { "Z", "B", "C", "S", "I", "J", "F", "D" }

RECURSIVE ParamTypes(_, _, _, _, _)
\* The while loops that cut a parameter list into types, idx counting from
\* 1: an L reads up to the next ";" and leaves current alone, a [ is kept
\* in current for the type behind it.  The loop for the target's signature
\* (strict) skips a character that is no primitive type, the loop for the
\* caller's takes it for one.  The descriptors of the model close every L
\* with a ";".
ParamTypes(params_part, idx, current, acc, strict) ==
    IF idx > Len(params_part) THEN acc
    ELSE IF params_part[idx] = "L"
      THEN ParamTypes(params_part, NextIndex(params_part, idx, {";"}) + 1, current,
                      Append(acc, SubSeq(params_part, idx,
                                         NextIndex(params_part, idx, {";"}))),
                      strict)
    ELSE IF params_part[idx] = "["
      THEN ParamTypes(params_part, idx + 1, Append(current, "["), acc, strict)
    ELSE IF strict /\ params_part[idx] \notin Primitives
      THEN ParamTypes(params_part, idx + 1, current, acc, strict)
    ELSE ParamTypes(params_part, idx + 1, << >>,
                    Append(acc, Append(current, params_part[idx])), strict)

\* target_param_types of the invoke text
target_param_types(instr_str) ==
    IF method_sig_match(Split(instr_str)) = << >> THEN << >>
    ELSE ParamTypes(ParamsPart(method_sig_match(Split(instr_str))), 1, << >>, << >>, TRUE)

\* caller_param_types of the caller's descriptor
caller_param_types(proto) ==
    IF ~Contains(proto, <<"(">>) THEN << >>
    ELSE ParamTypes(ParamsPart(proto), 1, << >>, << >>, FALSE)

RECURSIVE InjectCallerMocks(_, _, _, _, _)
\* The loop "for p_idx, param_type in enumerate(caller_param_types)", from
\* p_idx on: a context-typed parameter of the caller gets a mock context in
\* its register at the end of the frame.  st holds the registers and the
\* heap.
InjectCallerMocks(st, types, p_idx, is_static, regs_size) ==
    IF p_idx >= Len(types) THEN st
    ELSE LET reg_offset == p_idx + (IF is_static THEN 0 ELSE 1)
             param_reg == (regs_size - (Len(types) + (IF is_static THEN 0 ELSE 1)))
                            + reg_offset
             mock_obj == create_mock_context(st.heap)
         IN  IF types[p_idx + 1] \notin ContextTypes
               THEN InjectCallerMocks(st, types, p_idx + 1, is_static, regs_size)
             ELSE InjectCallerMocks(
                    [registers |-> IF param_reg < regs_size
                                     THEN RegSet(st.registers, param_reg, mock_obj.val)
                                     ELSE st.registers,
                     heap |-> mock_obj.heap],
                    types, p_idx + 1, is_static, regs_size)

\* One iteration of "for i, reg in enumerate(arg_regs)": what is appended
\* to resolved_args, and the heap behind it.  i counts from 0.
ResolvedArg(i, reg, regs, h, infos, types) ==
    IF ~RegOk(regs, reg)
      THEN [val |-> IF i < Len(infos) THEN infos[i + 1].value ELSE Null, heap |-> h]
    ELSE IF regs[reg + 1] # Null THEN [val |-> regs[reg + 1], heap |-> h]
    ELSE IF i < Len(infos) /\ infos[i + 1].resolved
      THEN [val |-> infos[i + 1].value, heap |-> h]
    ELSE IF i < Len(types) /\ types[i + 1] \in ContextTypes
      THEN [val |-> create_mock_context(h).val, heap |-> create_mock_context(h).heap]
    ELSE [val |-> Null, heap |-> h]

RECURSIVE ResolvedArgsFrom(_, _, _, _, _, _)
\* resolved_args from position i on; st holds the list and the heap.
ResolvedArgsFrom(st, i, regs_, regs, infos, types) ==
    IF i >= Len(regs_) THEN st
    ELSE ResolvedArgsFrom(
           [args |-> Append(st.args,
                            ResolvedArg(i, regs_[i + 1], regs, st.heap, infos, types).val),
            heap |-> ResolvedArg(i, regs_[i + 1], regs, st.heap, infos, types).heap],
           i + 1, regs_, regs, infos, types)

---------------------------------------------------------------------------
(* find_all_call_sites, second pass, for one call site (specification      *)
(* SpecResolve).  The caller LC;->run has two registers and ends in an     *)
(* invoke of a method of LA; with the arguments v0 and v1; in front of it  *)
(* stand at most two constant loads and moves.  caller holds the caller's  *)
(* EncodedMethod: instructions, descriptor and access flags.  LC; has no   *)
(* <clinit>.                                                               *)

\* The parameter types of the targets.
TargetTypes ==
    { <<"I">>, <<"L", "a", "n", "d", "r", "o", "i", "d", "/", "c", "o", "n", "t", "e", "n", "t", "/", "C", "o", "n", "t", "e", "x", "t", ";">>, <<"L", "a", "n", "d", "r", "o", "i", "d", "/", "a", "p", "p", "/", "A", "c", "t", "i", "v", "i", "t", "y", ";">>,
      <<"L", "a", "n", "d", "r", "o", "i", "d", "/", "c", "o", "n", "t", "e", "n", "t", "/", "p", "m", "/", "P", "a", "c", "k", "a", "g", "e", "M", "a", "n", "a", "g", "e", "r", ";">> }

\* invoke-static {v0, v1}, LA;->w(t1 t2)V and
\* invoke-virtual {v0, v1}, LA;->m(t1)V, whose v0 is the receiver.
StaticSite(t1, t2) ==
    SiteInsn(<<"i", "n", "v", "o", "k", "e", "-", "s", "t", "a", "t", "i", "c", " ", "v", "0", ",", " ", "v", "1", ",", " ", "L", "A", ";", "-", ">", "w", "(">> \o t1 \o t2 \o <<")", "V">>,
             << 113, 32, 4, 0, 16, 0 >>)
VirtualSite(t1) ==
    SiteInsn(<<"i", "n", "v", "o", "k", "e", "-", "v", "i", "r", "t", "u", "a", "l", " ", "v", "0", ",", " ", "v", "1", ",", " ", "L", "A", ";", "-", ">", "m", "(">> \o t1 \o <<")", "V">>,
             << 110, 32, 5, 0, 16, 0 >>)

\* A static target has two parameters, one of them an int.
SiteInvokes ==
    { StaticSite(t1, <<"I">>) : t1 \in TargetTypes }
      \cup { StaticSite(<<"I">>, t2) : t2 \in TargetTypes }
      \cup { VirtualSite(t1) : t1 \in TargetTypes }

\* The instructions in front of the invoke.
ResolveInsns == { Const4Insn(a, 1) : a \in {0, 1} } \cup { MoveInsn(1, a, 1 - a) : a \in {0, 1} }

\* Instructions of a caller in front of its invoke, at most.
MaxResolvePrefix == 2

\* caller_em.get_descriptor()
CallerDescriptors ==
    { <<"(", ")", "V">>, <<"(", "L", "a", "n", "d", "r", "o", "i", "d", "/", "c", "o", "n", "t", "e", "n", "t", "/", "C", "o", "n", "t", "e", "x", "t", ";", ")", "V">>, <<"(", "L", "a", "n", "d", "r", "o", "i", "d", "/", "c", "o", "n", "t", "e", "n", "t", "/", "p", "m", "/", "P", "a", "c", "k", "a", "g", "e", "M", "a", "n", "a", "g", "e", "r", ";", ")", "V">> }

\* caller_em: get_class_name(), get_descriptor(), 'static' in
\* get_access_flags_string(), registers_size and the instructions.
ResolveCallers ==
    { [class_name |-> <<"L", "C", ";">>, descriptor |-> d, is_static |-> s, regs_size |-> 2,
       instrs |-> body \o << l >>] :
        d \in CallerDescriptors, s \in BOOLEAN,
        body \in UNION { [1..n -> ResolveInsns] : n \in 0..MaxResolvePrefix },
        l \in SiteInvokes }

InitResolve ==
    /\ caller \in ResolveCallers
    /\ trace_map = build_trace_map(TextOf(caller.instrs))
    /\ site_candidates = << PcOf(TextOf(caller.instrs), Len(caller.instrs)) >>
    /\ requested = [class |-> <<"L", "A", ";">>, name |-> << >>]
    /\ stage = Stage("scanned", 0)
    /\ call_pc = 0
    /\ arg_regs = << >>
    /\ dependency_pcs = {}
    /\ slice_vm = NewSliceVM
    /\ bytecode = << >>
    /\ pc = 0
    /\ registers = << >>
    /\ finished = FALSE
    /\ last_result = NoResult
    /\ last = [p |-> 0, op |-> -1, regs |-> << >>, taken |-> FALSE, err |-> FALSE,
               res |-> NoResult]
    /\ LoaderIdle
    /\ ObjIdle

\* A call site as find_all_call_sites appends it.
CallSite(site_pc, args, arg_infos) == [pc |-> site_pc, args |-> args, arg_infos |-> arg_infos]

\* any(not arg.resolved for arg in arg_infos)
has_unresolved(arg_infos) == \E i \in 1..Len(arg_infos) : ~arg_infos[i].resolved

\* The candidate the second pass is at, and its arg_infos.
Candidate == site_candidates[stage.k + 1]
CandidateInfos == extract_args_static(Candidate, trace_map)

\* The loop body of the second pass for a candidate all of whose arguments
\* extract_args_static resolved.
ArgsResolvedStatically ==
    /\ stage.ph = "scanned"
    /\ stage.k < Len(site_candidates)
    /\ ~has_unresolved(CandidateInfos)
    /\ call_sites' = Append(call_sites,
                            CallSite(Candidate,
                                     [i \in 1..Len(CandidateInfos) |-> CandidateInfos[i].value],
                                     CandidateInfos))
    /\ stage' = Stage("scanned", stage.k + 1)
    /\ UNCHANGED <<caller, requested, trace_map, site_candidates, call_pc, arg_regs,
                   dependency_pcs, slice_vm,
                   program, storeObjs, globalStore, stack, ev, clinitRuns, calls, phase,
                   results, bytecode, pc, registers, finished, last_result,
                   last, objVars>>

\* The interpreter of resolve_args_by_execution after the mocks for the
\* caller's own parameters are in its registers.
ResolveVM ==
    InjectCallerMocks([registers |-> [r \in 1..caller.regs_size |-> Null], heap |-> heap],
                      caller_param_types(caller.descriptor), 0, caller.is_static,
                      caller.regs_size)

\* The loop body of the second pass for a candidate with an unresolved
\* argument, up to the slice loop of resolve_args_by_execution: the slice,
\* a fresh store with the caller's class marked, the interpreter.
BeginResolveByExecution ==
    /\ stage.ph = "scanned"
    /\ stage.k < Len(site_candidates)
    /\ has_unresolved(CandidateInfos)
    /\ call_pc' = Candidate
    /\ arg_regs' = InvokeArgRegs(trace_map, call_pc')
    /\ dependency_pcs' = build_register_dependencies(trace_map, call_pc', arg_regs')
    /\ globalStore' = ResetStaticFieldStore(storeObjs, globalStore).g
    /\ storeObjs' = [ResetStaticFieldStore(storeObjs, globalStore).objs EXCEPT
                       ![globalStore'] = MarkClassInitialized(@, caller.class_name, phase)]
    /\ class_loader' = "dex"
    /\ bytecode' = CodeOf(caller.instrs)
    /\ pc' = 0
    /\ registers' = ResolveVM.registers
    /\ heap' = ResolveVM.heap
    /\ finished' = FALSE
    /\ last_result' = NoResult
    /\ last' = [p |-> 0, op |-> -1, regs |-> << >>, taken |-> FALSE, err |-> FALSE,
                res |-> NoResult]
    /\ phase' = Phase("resolve", 0)
    /\ stage' = Stage("executing", stage.k + 1)
    /\ UNCHANGED <<caller, requested, trace_map, site_candidates, slice_vm,
                   program, stack, ev, clinitRuns, calls, results, call_sites,
                   hook, mockVars>>

\* The head of "for dep_pc in sorted_dep_pcs": vm.pc = dep_pc.
SliceNext ==
    /\ phase.ph = "resolve"
    /\ stage.ph = "executing"
    /\ SliceTodo # {}
    /\ pc # NextDep
    /\ pc' = NextDep
    /\ UNCHANGED <<bytecode, registers, finished, last_result, last, loaderVars>>

\* resolve_args_by_execution behind its slice loop, and the append of the
\* call site.
CollectResolvedArgs ==
    /\ phase.ph = "resolve"
    /\ stage.ph = "executing"
    /\ SliceTodo = {}
    /\ LET infos == extract_args_static(call_pc, trace_map)
           done == ResolvedArgsFrom([args |-> << >>, heap |-> heap], 0, arg_regs, registers,
                                    infos, target_param_types(TraceStr(trace_map, call_pc)))
       IN  /\ call_sites' = Append(call_sites, CallSite(call_pc, done.args, infos))
           /\ heap' = done.heap
    /\ stage' = Stage("scanned", stage.k)
    /\ UNCHANGED <<caller, requested, trace_map, site_candidates, call_pc, arg_regs,
                   dependency_pcs, slice_vm,
                   program, storeObjs, globalStore, stack, ev, clinitRuns, calls, phase,
                   results, bytecode, pc, registers, finished, last_result,
                   last, hook, class_loader, mockVars>>

NextResolve ==
    \/ ArgsResolvedStatically \/ BeginResolveByExecution
    \/ SliceNext \/ execute_const_4 \/ execute_move
    \/ CollectResolvedArgs

SpecResolve == InitResolve /\ [][NextResolve]_vars

\* resolve_args_by_execution has returned the arguments of the site.
Resolved == call_sites # << >> /\ phase.ph = "resolve"

\* Argument position i (from 1) is still unresolved after the slice ran:
\* its register holds no value and extract_args_static did not resolve it.
StillUnresolved(i) ==
    /\ registers[arg_regs[i] + 1] = Null
    /\ ~call_sites[1].arg_infos[i].resolved

\* The target is static: its invoke is an invoke-static.
StaticTarget == StartsWith(TraceStr(trace_map, call_pc), <<"i", "n", "v", "o", "k", "e", "-", "s", "t", "a", "t", "i", "c">>)

\* The declared parameter type argument position i is passed for, << >>
\* for the receiver of a non-static target and behind the last parameter.
DeclaredType(i) ==
    LET types == target_param_types(TraceStr(trace_map, call_pc))
        k == IF StaticTarget THEN i ELSE i - 1
    IN  IF k \in 1..Len(types) THEN types[k] ELSE << >>

\* v is a mock object of the class create_mock_for_class makes for
\* class_name.
IsMockFor(v, class_name) ==
    /\ v.t = "ref"
    /\ heap[v.i].class_name = MockClassName(class_name)
    /\ "_mock_type" \in DOMAIN heap[v.i].attrs

\* C35: after slice execution, an argument that is still unresolved and is
\* passed for a parameter whose declared type has a known mock is a mock
\* object of that type in the resolved argument list; the receiver of a
\* non-static target is matched to no declared parameter and gets none.
C35_MockForFrameworkParameter ==
    Resolved =>
        \A i \in 1..Len(arg_regs) :
            StillUnresolved(i) =>
                IF DeclaredType(i) \in ANDROID_MOCK_CLASSES
                  THEN IsMockFor(call_sites[1].args[i], DeclaredType(i))
                  ELSE call_sites[1].args[i] = Null

============================================================================
